---- MODULE Spec2Model ----
(***************************************************************************)
(* Crawl engine of job_scraper: the LinkedIn and JobStreet page loops      *)
(* (search_jobs / search_jobs_async), their card parsers and detail        *)
(* fetchers, and the Glints response handler and scroll loop.              *)
(*                                                                         *)
(* Strings of the program that are built from parts ("jobstreet_" + id)    *)
(* are sequences of tokens, the tokens being the parts between "_": the id *)
(* "jobstreet_1" is <<"jobstreet", "1">>, the empty string is <<"">>, and  *)
(* a key that is absent from a dict is <<>>.  Python's None in a           *)
(* string-valued field is the string "None".  An optional job (a job or    *)
(* None) is a sequence of zero or one job.  A job carries, besides the     *)
(* fields of the program's dict, the raw listing it was parsed from (raw); *)
(* the program reads no such field.                                        *)
(***************************************************************************)
EXTENDS Integers, Sequences, FiniteSets, TLC

VARIABLES
    source,          \* which scraper runs: "linkedin", "jobstreet", "glints"
    mode,            \* "sync" (search_jobs) or "async" (search_jobs_async)
    on_progress,     \* TRUE when a progress callback was passed (the async caller does)
    results_wanted,  \* argument results_wanted
    existing_ids,    \* argument existing_ids
    max_scrolls,     \* Glints: argument max_scrolls
    page_limit,      \* how many pages of the crawl the model follows
    limit_429,       \* how many 429 responses of the crawl the model follows
    may_recrawl,     \* TRUE when the caller runs the query a second time
    jobs,            \* local jobs (Glints: all_jobs)
    seen_ids,        \* local seen_ids
    start,           \* LinkedIn: local start (record offset)
    page,            \* local page
    pc,              \* position of the crawl in its loop
    job_cards,       \* what the extractor returned for the page being processed
    i,               \* index of the next card of job_cards (Glints: scroll index i)
    result,          \* <<>> until the crawl returns, then <<the returned list>>
    prev_count,      \* Glints: local prev_count
    no_new_jobs_count, \* Glints: local no_new_jobs_count
    \* ---- history variables: they record what happened, the code has none of them
    nreq,            \* page requests issued (Glints: responses intercepted)
    rate_limit_events, \* rate_limit events handed to on_progress
    n429,            \* page responses with status 429
    last_status,     \* status of the latest page response (-1: none yet, 0: exception)
    after_429,       \* the page being requested or processed got a 429 before
    retried_ok,      \* a page that got a 429 was answered with 200 on a later request
    retried_dropped, \* a card of such a page was not appended to jobs
    retried_ids,     \* ids of the jobs appended from the cards of such a page
    new_on_page,     \* a job was appended while processing the current page
    zero_new_pages,  \* consecutive processed pages that appended no job (capped)
    work_when_full,  \* a card was parsed or a page requested with len(jobs) >= results_wanted
    crawl_no,        \* 1: first crawl, 2: crawl seeded with the first crawl's ids
    first_ids,       \* ids returned by the first crawl
    \* ---- the WebSocket session around a crawl (main.py websocket_scrape)
    ws,              \* a record: see SessionIdle
    \* ---- one call of a function of the program on its own
    call,            \* a record: see CallIdle
    \* ---- search_jobs and search_jobs_async run side by side on the same responses
    twin,            \* a record: see TwinIdle
    \* ---- the jobs table and the latest call of one of its writers
    db,              \* a record: see StoreIdle
    \* ---- the connection manager shared by the WebSocket sessions
    manager,         \* a record: see ManagerIdle
    \* ---- two searches that run at the same time on the one table
    searches         \* a record: see SearchesIdle

argVars == <<source, mode, on_progress, results_wanted, existing_ids, max_scrolls,
             page_limit, limit_429, may_recrawl, crawl_no, first_ids>>

glintsVars == <<prev_count, no_new_jobs_count>>

\* the state of a crawl
crawlVars == <<source, mode, on_progress, results_wanted, existing_ids, max_scrolls,
          page_limit, limit_429, may_recrawl, jobs, seen_ids, start, page, pc, job_cards, i, result, prev_count,
          no_new_jobs_count, nreq, rate_limit_events, n429, last_status, after_429,
          retried_ok, retried_dropped, retried_ids, new_on_page, zero_new_pages,
          work_when_full, crawl_no, first_ids>>

\* the state outside the crawl and its WebSocket session
otherVars == <<call, twin, db, manager, searches>>

vars == <<crawlVars, ws, otherVars>>

----------------------------------------------------------------------------
(* Bounds of the model *)

MaxWanted    == 2   \* results_wanted ranges over 1..MaxWanted
MaxCards     == 2   \* listings on one page / jobs in one intercepted response
MaxPages     == 2   \* Spec: pages of one crawl the model follows
Max429       == 1   \* Spec: 429 responses of one crawl the model follows
RecrawlPages == 2   \* SpecRecrawl: pages followed in each of the two crawls
StreakPages  == 4   \* SpecStreak: pages followed
MaxResponses == 2   \* Glints: intercepted responses the model follows
MaxScrolls   == 4   \* Glints: max_scrolls ranges over 1..MaxScrolls
SessionPages == 1   \* SpecSession: pages of the crawl the model follows
TwinIterations == 2 \* SpecModes: loop iterations followed
TwinCards    == 2   \* SpecModes: listings on one page
MaxAgo       == 3   \* SpecCalls: n of "<n>d ago" ranges over 1..MaxAgo
MaxBatch     == 2   \* SpecStore: jobs in one list handed to a writer
MaxSaves     == 2   \* SpecStore: calls of a writer the model follows
RetryLimit   == 2   \* SpecRetry: 429 responses to the request of one page
CeilingPages == 2   \* SpecCeiling: JobStreet pages left before the page ceiling
CeilingCards == 3   \* SpecCeiling: LinkedIn listings left before the offset ceiling
HistoryCap   == 2   \* SpecForever: where the history counters stop counting
MaxHoursOld  == 745 \* SpecCalls: hours_old ranges over 0..MaxHoursOld
EventPages   == 2   \* SpecEvents: pages of the crawl the model follows
NumSessions  == 2   \* SpecClients: WebSocket sessions on the manager

(* Program constants *)

PageCeiling   == 20     \* JobStreet: while ... page <= 20
OffsetCeiling == 1000   \* LinkedIn: while ... start < 1000
EarlyStopScrolls == 3   \* Glints: no_new_jobs_count >= 3

None   == "None"
Absent == <<>>       \* a key that is not in the dict
Empty  == <<"">>     \* the empty string

Prefixes == {"linkedin", "jobstreet", "glints"}

Last(s) == s[Len(s)]

\* Python truthiness of an optional string held as tokens
Truthy(s) == s # Absent /\ s # Empty

\* Python truthiness of a string-valued field
TruthyStr(s) == s # None /\ s # ""

----------------------------------------------------------------------------
(* A text (a label, a button caption, a workType value) is the set of the  *)
(* keywords it contains, lower-cased: `"remote" in text.lower()` is        *)
(* "remote" \in text.                                                      *)

NoText == {}

----------------------------------------------------------------------------
(* LinkedIn: scraper.py *)

\* A search-result card.  href is the link's href up to "?", split at "-";
\* company_href "invalid": urlparse raises on the company link.
LI_Cards ==
    {[link |-> "absent", href |-> <<"">>,         title_tag |-> "Dev", company_href |-> "ok"],
     [link |-> "nohref", href |-> <<"">>,         title_tag |-> "Dev", company_href |-> "ok"],
     [link |-> "href",   href |-> <<"dev", "1">>, title_tag |-> "Dev", company_href |-> "ok"],
     [link |-> "href",   href |-> <<"dev", "1">>, title_tag |-> "Dev", company_href |-> "invalid"],
     [link |-> "href",   href |-> <<"dev", "2">>, title_tag |-> "Dev", company_href |-> "ok"],
     [link |-> "href",   href |-> <<"dev", "2">>, title_tag |-> None,  company_href |-> "ok"]}

\* The detail page of a job.  status 0: session.get raised.
LI_DetailResponses ==
    {[status |-> 0,   desc |-> None,   buttons |-> <<>>],
     [status |-> 404, desc |-> None,   buttons |-> <<>>],
     [status |-> 200, desc |-> "html", buttons |-> <<{"on-site"}, {"remote"}>>]}

RECURSIVE LI_scan_buttons(_)
LI_scan_buttons(buttons) ==
    IF buttons = <<>> THEN None
    ELSE IF "remote" \in Head(buttons) THEN "remote"
    ELSE IF "hybrid" \in Head(buttons) THEN "hybrid"
    ELSE LI_scan_buttons(Tail(buttons))

LI_get_job_description(resp) ==
    IF resp.status # 200
    THEN [description |-> None, work_type |-> None]
    ELSE [description |-> resp.desc, work_type |-> LI_scan_buttons(resp.buttons)]

LI_job_id(card) == <<Last(card.href)>>

\* title_tag.get_text without the "N/A" default
LI_title_no_default(card) == card.title_tag

LI_title(card) == IF card.title_tag # None THEN card.title_tag ELSE "N/A"

\* TRUE when parse_job_card reaches the detail fetch for this card
LI_fetches_detail(card) == card.link = "href" /\ card.company_href # "invalid"

\* a parse_job_card that gives the card up when its detail fetch failed
LI_parse_job_card_detail_required(card, resp) ==
    IF card.link # "href" \/ card.company_href = "invalid" \/ resp.status # 200
    THEN <<>>
    ELSE LET job_details == LI_get_job_description(resp)
         IN  <<[id          |-> LI_job_id(card),
                title       |-> LI_title(card),
                description |-> job_details.description,
                work_type   |-> job_details.work_type,
                raw         |-> card]>>

LI_parse_job_card(card, resp) ==
    IF card.link # "href" THEN <<>>
    ELSE IF card.company_href = "invalid" THEN <<>>
    ELSE LET job_details == LI_get_job_description(resp)
         IN  <<[id          |-> LI_job_id(card),
                title       |-> LI_title(card),
                description |-> job_details.description,
                work_type   |-> job_details.work_type,
                raw         |-> card]>>

----------------------------------------------------------------------------
(* JobStreet: jobstreet-scraper.py *)

JS_Listing(shape, id, jobId, listingId, title, jobTitle, wa, workType, work_type) ==
    [shape |-> shape, id |-> id, jobId |-> jobId, listingId |-> listingId,
     title |-> title, jobTitle |-> jobTitle, workArrangements |-> wa,
     workType |-> workType, work_type |-> work_type]

\* Listings of the embedded JSON (Tier 1).  shape "str": the array element is
\* not a dict, so .get raises.
JS_JsonListings ==
    {JS_Listing("str",  Absent,   Absent,   Absent,   None,  None,  NoText,      NoText,     None),
     JS_Listing("dict", Absent,   Absent,   Absent,   "Dev", None,  NoText,      NoText,     None),
     JS_Listing("dict", <<"1">>,  Absent,   Absent,   "Dev", None,  NoText,      NoText,     None),
     JS_Listing("dict", Absent,   Absent,   <<"1">>,  None,  None,  {"on-site"}, NoText,     None),
     JS_Listing("dict", Empty,    <<"2">>,  Absent,   "",    "Dev", NoText,      {"remote"}, None)}

\* Listings built by _parse_html_cards (Tier 2): it keeps a card only with a
\* title and an id, and the id it stores is already "jobstreet_<n>".
JS_HtmlListings ==
    {JS_Listing("dict", <<"jobstreet", "1">>, Absent, Absent, "Dev", None, NoText, NoText, "internship")}

\* the ids JobStreet gives its jobs
NativeIds == {<<"1">>, <<"2">>}

\* job["id"] = f"jobstreet_{id_match.group(1)}" in _parse_html_cards
JS_html_card_id(n) == <<"jobstreet">> \o n

\* the listing of the job with native id n as _extract_job_listings hands it
\* to parse_job_card: the element of the embedded JSON (tier 1), or the dict
\* _parse_html_cards built from the card (tier 2)
JS_ListingOf(tier, n) ==
    IF tier = 1
    THEN JS_Listing("dict", n, Absent, Absent, "Dev", None, NoText, NoText, None)
    ELSE JS_Listing("dict", JS_html_card_id(n), Absent, Absent, "Dev", None, NoText,
                    NoText, "internship")

\* The detail page of a job.  status 0: session.get raised.
JS_DetailResponses ==
    {[status |-> 0,   description |-> None,   workArrangements |-> NoText,     workType |-> NoText],
     [status |-> 500, description |-> None,   workArrangements |-> NoText,     workType |-> NoText],
     [status |-> 200, description |-> "html", workArrangements |-> {"hybrid"}, workType |-> NoText]}

\* WORK_TYPE_MAP, scanned in insertion order
JS_WORK_TYPE_MAP(label) ==
    IF "hybrid" \in label THEN "hybrid"
    ELSE IF "on-site" \in label THEN "onsite"
    ELSE IF "remote" \in label THEN "remote"
    ELSE IF "work from home" \in label THEN "remote"
    ELSE None

JS_extract_work_arrangement(job_data) ==
    IF JS_WORK_TYPE_MAP(job_data.workArrangements) # None
    THEN JS_WORK_TYPE_MAP(job_data.workArrangements)
    ELSE IF "remote" \in job_data.workType THEN "remote"
    ELSE IF "hybrid" \in job_data.workType THEN "hybrid"
    ELSE None

JS_get_job_description(resp) ==
    IF resp.status # 200
    THEN [description |-> None, work_type |-> None]
    ELSE [description |-> resp.description,
          work_type   |-> JS_extract_work_arrangement(resp)]

\* job_data.get("id") or job_data.get("jobId") or job_data.get("listingId") or ""
JS_job_id(job_data) ==
    IF Truthy(job_data.id) THEN job_data.id
    ELSE IF Truthy(job_data.jobId) THEN job_data.jobId
    ELSE IF Truthy(job_data.listingId) THEN job_data.listingId
    ELSE Empty

JS_prefixed_id(job_id) == <<"jobstreet">> \o job_id

JS_title(job_data) ==
    IF TruthyStr(job_data.title) THEN job_data.title
    ELSE IF TruthyStr(job_data.jobTitle) THEN job_data.jobTitle
    ELSE "N/A"

JS_fetches_detail(job_data) == job_data.shape = "dict" /\ Truthy(JS_job_id(job_data))

JS_parse_job_card(job_data, resp) ==
    IF job_data.shape # "dict" THEN <<>>
    ELSE IF ~Truthy(JS_job_id(job_data)) THEN <<>>
    ELSE LET work_type   == JS_extract_work_arrangement(job_data)
             job_details == JS_get_job_description(resp)
         IN  <<[id          |-> JS_prefixed_id(JS_job_id(job_data)),
                title       |-> JS_title(job_data),
                description |-> job_details.description,
                work_type   |-> IF work_type = None /\ job_details.work_type # None
                                THEN job_details.work_type
                                ELSE work_type,
                raw         |-> job_data]>>

----------------------------------------------------------------------------
(* Glints: glints-scraper.py *)

AbsentKey == "<absent>"

\* A job object of jobsInPage.  shape "null": the element is null, so job.get raises.
G_Jobs ==
    {[shape |-> "null", id |-> Absent,  title |-> AbsentKey, workArrangementOption |-> None],
     [shape |-> "dict", id |-> Absent,  title |-> "Dev",     workArrangementOption |-> None],
     [shape |-> "dict", id |-> <<"1">>, title |-> "Dev",     workArrangementOption |-> "hybrid"],
     [shape |-> "dict", id |-> <<"1">>, title |-> AbsentKey, workArrangementOption |-> "REMOTE"],
     [shape |-> "dict", id |-> <<"2">>, title |-> "Dev",     workArrangementOption |-> "FLEXIBLE"]}

Upper(s) ==
    CASE s = "remote" -> "REMOTE"
      [] s = "hybrid" -> "HYBRID"
      [] s = "onsite" -> "ONSITE"
      [] OTHER -> s

G_map_work_arrangement(work_arrangement) ==
    IF work_arrangement = None \/ work_arrangement = "" THEN "onsite"
    ELSE CASE Upper(work_arrangement) = "REMOTE" -> "remote"
           [] Upper(work_arrangement) = "HYBRID" -> "hybrid"
           [] Upper(work_arrangement) = "ONSITE" -> "onsite"
           [] OTHER -> "onsite"

\* job.get("id", "")
G_job_id(job) == IF job.id = Absent THEN Empty ELSE job.id

\* job.get("title", "Unknown Title")
G_title(job) == IF job.title = AbsentKey THEN "Unknown Title" ELSE job.title

G_parse_job(job) ==
    IF job.shape # "dict" THEN <<>>
    ELSE <<[id       |-> <<"glints">> \o G_job_id(job),
            title    |-> G_title(job),
            job_type |-> G_map_work_arrangement(job.workArrangementOption),
            raw      |-> job]>>

----------------------------------------------------------------------------
(* Salary: jobstreet-scraper.py _extract_salary, glints-scraper.py _format_salary *)

\* An amount as the source's JSON may hold it: the key is absent, or its
\* value is null, a number, or a string of digits.
Amount(type, v) == [type |-> type, v |-> v]

NoAmount == Amount("absent", 0)

Amounts ==
    {NoAmount, Amount("none", 0), Amount("int", 0), Amount("int", 5000000),
     Amount("int", 8500), Amount("str", 5000000)}

\* Python truthiness of an amount
AmountTruthy(a) == (a.type = "int" /\ a.v # 0) \/ a.type = "str"

\* a or b
AmountOr(a, b) == IF AmountTruthy(a) THEN a ELSE b

\* format(n, ","): the groups of three digits of n, the leading group first
RECURSIVE Commas(_)
Commas(n) == IF n < 1000 THEN <<n>> ELSE Commas(n \div 1000) \o <<n % 1000>>

\* What a salary function gives.  kind "absent": None; "label": the text
\* label; "range": "{currency} {min} - {max}"; "from": "{currency} {min}+";
\* "upto": "{currency} up to {max}"; "raises": an exception left the function.
\* min and max are the amounts as format(n, ",") writes them.
Salary(kind, label, currency, min, max) ==
    [kind |-> kind, label |-> label, currency |-> currency, min |-> min, max |-> max]

NoSalary == Salary("absent", "", "", <<>>, <<>>)

SalaryLabel(label) == Salary("label", label, "", <<>>, <<>>)

SalaryRaises == Salary("raises", "", "", <<>>, <<>>)

\* The three f-strings; format(s, ",") of a string raises ValueError.
FormatAmounts(currency, min_sal, max_sal) ==
    IF AmountTruthy(min_sal) /\ AmountTruthy(max_sal)
    THEN IF min_sal.type = "str" \/ max_sal.type = "str" THEN SalaryRaises
         ELSE Salary("range", "", currency, Commas(min_sal.v), Commas(max_sal.v))
    ELSE IF AmountTruthy(min_sal)
    THEN IF min_sal.type = "str" THEN SalaryRaises
         ELSE Salary("from", "", currency, Commas(min_sal.v), <<>>)
    ELSE IF AmountTruthy(max_sal)
    THEN IF max_sal.type = "str" THEN SalaryRaises
         ELSE Salary("upto", "", currency, <<>>, Commas(max_sal.v))
    ELSE NoSalary

\* The "salary" value of a JobStreet listing.  shape "absent": no such key,
\* or null; "str": the string text; "list": a non-empty array; "dict": an
\* object with the keys that are not absent.
SalaryData(shape, text, label, min, minimum, max, maximum, currency) ==
    [shape |-> shape, text |-> text, label |-> label, min |-> min,
     minimum |-> minimum, max |-> max, maximum |-> maximum, currency |-> currency]

SalaryDicts ==
    {SalaryData("dict", "", label, min, minimum, max, maximum, currency) :
        label \in {AbsentKey, "Rp 5 jt"},
        min \in Amounts, max \in Amounts,
        minimum \in {NoAmount, Amount("int", 4000)},
        maximum \in {NoAmount, Amount("int", 9000)},
        currency \in {AbsentKey, None, "USD"}}

SalaryValues ==
    {SalaryData(shape, text, AbsentKey, NoAmount, NoAmount, NoAmount, NoAmount, AbsentKey) :
        shape \in {"absent", "str", "list"}, text \in {"", "Rp 6 jt"}}
    \cup SalaryDicts

\* the part of a JobStreet listing _extract_salary reads
SalaryJobData ==
    [salary : SalaryValues, salaryLabel : {AbsentKey, "Rp 7 jt"}]

\* Python truthiness of the "salary" value
SalaryDataTruthy(sd) ==
    CASE sd.shape = "absent" -> FALSE
      [] sd.shape = "str"    -> sd.text # ""
      [] sd.shape = "list"   -> TRUE
      [] OTHER -> \/ sd.label # AbsentKey \/ sd.currency # AbsentKey
                  \/ \E a \in {sd.min, sd.minimum, sd.max, sd.maximum} : a.type # "absent"

\* Python truthiness of a text that may be absent or None
TextTruthy(s) == s # AbsentKey /\ s # None /\ s # ""

JS_extract_salary(job_data) ==
    LET salary_data == job_data.salary
    IN  IF ~SalaryDataTruthy(salary_data)
        THEN IF TextTruthy(job_data.salaryLabel)
             THEN SalaryLabel(job_data.salaryLabel) ELSE NoSalary
        ELSE IF salary_data.shape = "str" THEN SalaryLabel(salary_data.text)
        ELSE IF salary_data.shape = "dict"
        THEN IF TextTruthy(salary_data.label) THEN SalaryLabel(salary_data.label)
             ELSE LET min_sal  == AmountOr(salary_data.min, salary_data.minimum)
                      max_sal  == AmountOr(salary_data.max, salary_data.maximum)
                      currency == IF salary_data.currency = AbsentKey THEN "IDR"
                                  ELSE salary_data.currency
                  IN  FormatAmounts(currency, min_sal, max_sal)
        ELSE NoSalary

\* the arguments _parse_job hands to _format_salary
FormatSalaryArgs ==
    [salary_min : Amounts \ {NoAmount}, salary_max : Amounts \ {NoAmount},
     currency : {None, "", "USD"}]

G_format_salary(salary_min, salary_max, currency) ==
    IF ~AmountTruthy(salary_min) /\ ~AmountTruthy(salary_max) THEN NoSalary
    ELSE FormatAmounts(IF TextTruthy(currency) THEN currency ELSE "IDR",
                       salary_min, salary_max)

----------------------------------------------------------------------------
(* Date: jobstreet-scraper.py _parse_relative_date, _extract_date *)

\* A display text is the sequence of its parts: a run of digits (Num), a
\* word with its first letter (Word), or another sign such as "+" (Sign);
\* the parts may or may not be separated by blanks.
Num(n) == [kind |-> "num", n |-> n, w |-> "", first |-> ""]

Word(w, first) == [kind |-> "word", n |-> 0, w |-> w, first |-> first]

Sign(w) == [kind |-> "sign", n |-> 0, w |-> w, first |-> ""]

Ago == Word("ago", "a")

\* "<n>d ago", "<n>h ago", "<n>m ago"
RelativeTexts ==
    {<<Num(n), Word(u, u), Ago>> : n \in 1..MaxAgo, u \in {"d", "h", "m"}}

\* "just now", "baru saja"
NowTexts == {<<Word("just", "j"), Word("now", "n")>>, <<Word("baru", "b"), Word("saja", "s")>>}

\* "", "yesterday", "2 weeks ago", "30+ days ago", "3 months ago",
\* "2 hari yang lalu", "posted 12 dec"
OtherTexts ==
    {<<>>,
     <<Word("yesterday", "y")>>,
     <<Num(2), Word("weeks", "w"), Ago>>,
     <<Num(30), Sign("+"), Word("days", "d"), Ago>>,
     <<Num(3), Word("months", "m"), Ago>>,
     <<Num(2), Word("hari", "h"), Word("yang", "y"), Word("lalu", "l")>>,
     <<Word("posted", "p"), Num(12), Word("dec", "d")>>}

DisplayTexts == RelativeTexts \cup NowTexts \cup OtherTexts

\* datetime.now(): the day, as a number of days, and the minute of the day
NowTimes == {[day |-> 100, minute |-> 30], [day |-> 100, minute |-> 720]}

\* (now - timedelta(minutes=n)).strftime("%Y-%m-%d"): the day that instant is in
DateMinus(now, minutes) ==
    LET t == now.day * 1440 + now.minute - minutes
    IN  t \div 1440

\* re.search(r"(\d+)\s*([dhm])", text): the position of the leftmost run of
\* digits that a "d", "h" or "m" follows, 0 when there is none
UnitMatch(text) ==
    LET hits == {p \in 1..(Len(text) - 1) :
                    /\ text[p].kind = "num"
                    /\ text[p + 1].kind = "word"
                    /\ text[p + 1].first \in {"d", "h", "m"}}
    IN  IF hits = {} THEN 0 ELSE CHOOSE p \in hits : \A q \in hits : p <= q

\* A date is <<day>>, None is <<>>.
JS_parse_relative_date(display_text, now) ==
    IF display_text = <<>> THEN <<>>
    ELSE LET p == UnitMatch(display_text)
         IN  IF p # 0
             THEN LET value == display_text[p].n
                      unit  == display_text[p + 1].first
                  IN  CASE unit = "d" -> <<DateMinus(now, value * 1440)>>
                        [] unit = "h" -> <<DateMinus(now, value * 60)>>
                        [] OTHER      -> <<DateMinus(now, value)>>
             ELSE IF \E k \in 1..Len(display_text) : display_text[k].w \in {"just", "baru"}
             THEN <<DateMinus(now, 0)>>
             ELSE <<>>

\* A listingDate / postedAt / createdAt value.  form "absent": no such key,
\* null or ""; "iso": a timestamp "YYYY-MM-DDThh:mm:ss..." of the day day;
\* "date": "YYYY-MM-DD..." without a "T"; "t_text": another text with a "T"
\* in it (fromisoformat raises); "epoch": a number.
DateValue(form, day) == [form |-> form, day |-> day]

NoDateValue == DateValue("absent", 0)

DateValues ==
    {NoDateValue, DateValue("iso", 90), DateValue("date", 91),
     DateValue("t_text", 0), DateValue("epoch", 92)}

\* the part of a JobStreet listing _extract_date reads
DateJobData ==
    {[listingDate |-> ld, postedAt |-> pa, createdAt |-> NoDateValue,
      listingDateDisplay |-> t] :
        ld \in DateValues, pa \in {NoDateValue, DateValue("iso", 93)},
        t \in {<<>>, <<Num(2), Word("d", "d"), Ago>>, <<Num(3), Word("months", "m"), Ago>>}}
    \cup
    {[listingDate |-> NoDateValue, postedAt |-> NoDateValue,
      createdAt |-> DateValue("iso", 94), listingDateDisplay |-> <<>>]}

JS_extract_date(job_data, now) ==
    LET listing_date ==
            IF job_data.listingDate.form # "absent" THEN job_data.listingDate
            ELSE IF job_data.postedAt.form # "absent" THEN job_data.postedAt
            ELSE job_data.createdAt
    IN  IF listing_date.form \in {"iso", "date"} THEN <<listing_date.day>>
        ELSE JS_parse_relative_date(job_data.listingDateDisplay, now)

----------------------------------------------------------------------------
(* The progress sink: websocket_manager.py and websocket_scrape.on_progress *)

\* No WebSocket session: the crawl was called by an HTTP route or a script.
\* pc: position of websocket_scrape; active: client_id is in
\* manager.active_connections; client_open: the client's socket is still
\* connected (send_json raises when it is not); raised: an exception left
\* send_progress; keywords: request.keywords.  The other fields are history.
SessionIdle ==
    [pc |-> "none", active |-> FALSE, client_open |-> FALSE, raised |-> FALSE,
     keywords |-> "dev",
     last_event |-> "none",     \* the latest event send_json delivered
     n_completed |-> 0,         \* completed events delivered
     n_error |-> 0,             \* error events delivered
     late_progress |-> FALSE,   \* a progress event was delivered after completed or error
     send_failed |-> FALSE,     \* a send_json raised
     fetch_after_disconnect |-> FALSE, \* a page was requested with the client gone
     disconnected_in_crawl |-> FALSE,  \* the client went away while the loop ran
     saved |-> FALSE,           \* save_jobs_to_db returned
     started |-> FALSE,         \* the started event was delivered
     fetching |-> <<>>,         \* page, jobs_found of the latest fetching_page delivered
     parsing |-> <<>>]          \* current, total of the latest parsing delivered after it

ProgressEvents == {"fetching_page", "rate_limit", "parsing"}

TerminalEvents == {"completed", "error"}

\* an async loop that numbers the parsing events as enumerate does, from 0
ProgressData_from_zero(event) ==
    CASE event = "fetching_page" -> <<page, Len(jobs)>>
      [] event = "parsing" -> <<i, job_cards.total>>
      [] event = "rate_limit" -> <<60>>
      [] OTHER -> <<>>

\* the data of a progress event, from the locals of the loop at the call:
\* {"page": page, "jobs_found": len(jobs)}, {"current": i + 1, "total":
\* len(job_cards)} (i counts the cards already parsed), {"wait_seconds": 60}
ProgressData(event) ==
    CASE event = "fetching_page" -> <<page, Len(jobs)>>
      [] event = "parsing" -> <<i + 1, job_cards.total>>
      [] event = "rate_limit" -> <<60>>
      [] OTHER -> <<>>

\* what the client has received once send_json delivered this event
Delivered(w, event) ==
    [w EXCEPT !.last_event = event,
              !.started = @ \/ event = "started",
              !.fetching = IF event = "fetching_page" THEN ProgressData(event) ELSE @,
              !.parsing = CASE event = "parsing" -> ProgressData(event)
                            [] event = "fetching_page" -> <<>>
                            [] OTHER -> @,
              !.n_completed = IF event = "completed" THEN @ + 1 ELSE @,
              !.n_error = IF event = "error" THEN @ + 1 ELSE @,
              !.late_progress =
                  @ \/ (event \in ProgressEvents /\ w.n_completed + w.n_error > 0)]

\* ConnectionManager.send_progress without its try/except
send_progress_unguarded(w, event) ==
    IF ~w.active THEN w
    ELSE IF w.client_open THEN Delivered(w, event)
    ELSE [w EXCEPT !.send_failed = TRUE, !.raised = TRUE]

\* ConnectionManager.send_progress: nothing for a client that is not in
\* active_connections; a send_json that raises removes the client
send_progress(w, event) ==
    IF ~w.active THEN w
    ELSE IF w.client_open THEN Delivered(w, event)
    ELSE [w EXCEPT !.send_failed = TRUE, !.active = FALSE]

\* `if on_progress: await on_progress(event, ...)` in the loop, event "none"
\* when the step has no such call.  The callback of websocket_scrape hands
\* the event to send_progress; a page request follows the fetching_page call.
on_progress_call(event) ==
    /\ ~ws.raised
    /\ ws' = IF ws.pc = "none" \/ ~on_progress \/ event = "none" THEN ws
             ELSE [send_progress(ws, event) EXCEPT
                      !.fetch_after_disconnect =
                          @ \/ (event = "fetching_page" /\ ~ws.client_open)]
    /\ UNCHANGED otherVars

----------------------------------------------------------------------------
(* The page loop shared by search_jobs and search_jobs_async *)

Ids(js) == {js[k].id : k \in 1..Len(js)}

\* seen_ids = set(), whatever existing_ids holds
InitSeen_empty(existing) == {}

\* seen_ids = existing_ids.copy() if existing_ids else set()
InitSeen(existing) == existing

\* a loop that answers every status but 200 with `continue`
OnStatus_retry_all(status) == IF status = 200 THEN "parse" ELSE "retry"

\* what the loop does with a page response of this status (0: session.get raised)
OnStatus(status) ==
    IF status = 429 THEN "retry"
    ELSE IF status # 200 THEN "break"
    ELSE "parse"

\* if job: without the seen_ids test
IsNew_unchecked(out, seen) == out # <<>>

\* if job and job["id"] not in seen_ids
IsNew(out, seen) == out # <<>> /\ out[1].id \notin seen

\* a card loop without the break
ReachedWanted_never(js, wanted) == FALSE

\* if len(jobs) >= results_wanted: break
ReachedWanted(js, wanted) == Len(js) >= wanted

\* a 429 branch that emits nothing
RateLimitEvents_silent(cb) == 0

\* rate_limit events of one 429: if on_progress: await on_progress("rate_limit", ...)
RateLimitEvents(cb) == IF cb THEN 1 ELSE 0

Min(a, b) == IF a < b THEN a ELSE b

\* limit_429 of a crawl whose source may answer 429 without end
Unlimited == -1

\* A history counter after one more occurrence.  The program keeps no such
\* counter: where the 429 responses are not limited the history stops
\* counting at HistoryCap, so that a loop that returns to the same locals
\* returns to the same state.
Count(n) == IF limit_429 = Unlimited THEN Min(n + 1, HistoryCap) ELSE n + 1

\* The history of one parsed card
ParseHistory(out, new, brk) ==
    /\ new_on_page' = (new_on_page \/ new)
    /\ retried_ids' = IF after_429 /\ new THEN retried_ids \cup {out[1].id}
                      ELSE retried_ids
    /\ work_when_full' = (work_when_full \/ Len(jobs) >= results_wanted)
    /\ retried_dropped' =
         (retried_dropped \/ (after_429 /\ (~new \/ (brk /\ i + 1 < job_cards.total))))
    /\ UNCHANGED <<nreq, rate_limit_events, n429, last_status, after_429,
                   retried_ok, zero_new_pages>>

\* The history of one page response
ResponseHistory(status) ==
    /\ last_status' = status
    /\ n429' = IF status = 429 THEN Count(n429) ELSE n429
    /\ rate_limit_events' =
         IF OnStatus(status) = "retry"
         THEN IF RateLimitEvents(on_progress) = 1 THEN Count(rate_limit_events)
              ELSE rate_limit_events
         ELSE rate_limit_events
    /\ after_429' = (after_429 \/ status = 429)
    /\ retried_ok' = (retried_ok \/ (after_429 /\ status = 200))
    /\ new_on_page' = FALSE
    /\ UNCHANGED <<nreq, retried_dropped, retried_ids, zero_new_pages, work_when_full>>

\* The history of the end of a page
PageHistory ==
    /\ zero_new_pages' = IF new_on_page THEN 0 ELSE Min(zero_new_pages + 1, 3)
    /\ after_429' = FALSE
    /\ new_on_page' = FALSE
    /\ UNCHANGED <<nreq, rate_limit_events, n429, last_status, retried_ok,
                   retried_dropped, retried_ids, work_when_full>>

\* The history of one evaluation of the while condition
LoopHistory(enter) ==
    /\ nreq' = IF enter THEN Count(nreq) ELSE nreq
    /\ work_when_full' = (work_when_full \/ (enter /\ Len(jobs) >= results_wanted))
    /\ UNCHANGED <<rate_limit_events, n429, last_status, after_429, retried_ok,
                   retried_dropped, retried_ids, new_on_page, zero_new_pages>>

NoCards == [tier |-> 0, total |-> 0, none |-> FALSE]

----------------------------------------------------------------------------
(* LinkedIn: search_jobs_async (scraper.py 38-140) and search_jobs (143-239) *)

\* A response to the search request.  status 0: session.get raised.
LI_PageResponses ==
    {[status |-> st, n_cards |-> 0] : st \in {0, 429, 500}}
    \cup {[status |-> 200, n_cards |-> n] : n \in 0..MaxCards}

\* while len(jobs) < results_wanted and start < 1000
LI_LoopCond == Len(jobs) < results_wanted /\ start < OffsetCeiling

LI_LoopTest ==
    /\ source = "linkedin" /\ pc = "loop"
    /\ LI_LoopCond => page <= page_limit
    /\ pc' = IF LI_LoopCond THEN "fetch" ELSE "done"
    /\ result' = IF LI_LoopCond THEN result ELSE <<jobs>>
    /\ LoopHistory(LI_LoopCond)
    /\ on_progress_call(IF LI_LoopCond THEN "fetching_page" ELSE "none")
    /\ UNCHANGED <<argVars, glintsVars, jobs, seen_ids, start, page, job_cards, i>>

LI_Response(resp) ==
    /\ source = "linkedin" /\ pc = "fetch"
    /\ resp.status = 429 => (limit_429 = Unlimited \/ n429 < limit_429)
    /\ LET act == OnStatus(resp.status)
           job_cards_ == [tier |-> 0, total |-> resp.n_cards, none |-> FALSE]
       IN  /\ pc' = CASE act = "retry" -> "loop"
                      [] act = "break" -> "done"
                      [] OTHER -> IF job_cards_.total = 0 THEN "done" ELSE "cards"
           /\ job_cards' = IF act = "parse" THEN job_cards_ ELSE job_cards
           /\ i' = IF act = "parse" THEN 0 ELSE i
           /\ result' = IF pc' = "done" THEN <<jobs>> ELSE result
           /\ ResponseHistory(resp.status)
           /\ on_progress_call(IF act = "retry" THEN "rate_limit" ELSE "none")
    /\ UNCHANGED <<argVars, glintsVars, jobs, seen_ids, start, page>>

LI_ParseCard(card, resp) ==
    /\ source = "linkedin" /\ pc = "cards"
    /\ LET out  == LI_parse_job_card(card, resp)
           new  == IsNew(out, seen_ids)
           jobs_ == IF new THEN Append(jobs, out[1]) ELSE jobs
           brk  == new /\ ReachedWanted(jobs_, results_wanted)
       IN  /\ jobs' = jobs_
           /\ seen_ids' = IF new THEN seen_ids \cup {out[1].id} ELSE seen_ids
           /\ i' = i + 1
           /\ pc' = IF brk \/ i + 1 = job_cards.total THEN "advance" ELSE "cards"
           /\ ParseHistory(out, new, brk)
           /\ on_progress_call("parsing")
    /\ UNCHANGED <<argVars, glintsVars, start, page, job_cards, result>>

LI_NextPage ==
    /\ source = "linkedin" /\ pc = "advance"
    /\ start' = start + job_cards.total
    /\ page' = page + 1
    /\ pc' = "loop"
    /\ PageHistory
    /\ on_progress_call("none")
    /\ UNCHANGED <<argVars, glintsVars, jobs, seen_ids, job_cards, i, result>>

----------------------------------------------------------------------------
(* JobStreet: search_jobs_async (jobstreet-scraper.py 55-153), search_jobs (156-250) *)

\* JOB_TYPE_CODES
JS_JOB_TYPE_CODES ==
    [full_time |-> "242", part_time |-> "243", contract |-> "244",
     temporary |-> "244", internship |-> "245"]

\* sorted(DATE_RANGE_MAP.items())
JS_DATE_RANGE_MAP ==
    <<[threshold |-> 1, code |-> "1"], [threshold |-> 3, code |-> "3"],
      [threshold |-> 7, code |-> "7"], [threshold |-> 14, code |-> "14"],
      [threshold |-> 30, code |-> "31"]>>

\* the job_type and hours_old arguments: <<>> is None
JobTypes ==
    {<<>>, <<"">>, <<"full_time">>, <<"part_time">>, <<"contract">>,
     <<"temporary">>, <<"internship">>, <<"freelance">>}

HoursOld == {<<>>} \cup {<<h>> : h \in 0..MaxHoursOld}

\* a date filter that takes the first threshold above days
JS_daterange_strict(hours_old) ==
    IF hours_old = <<>> \/ hours_old[1] = 0 THEN <<>>
    ELSE LET fits == {k \in 1..Len(JS_DATE_RANGE_MAP) :
                        hours_old[1] < 24 * JS_DATE_RANGE_MAP[k].threshold}
         IN  IF fits = {} THEN <<>>
             ELSE <<JS_DATE_RANGE_MAP[CHOOSE k \in fits : \A m \in fits : k <= m].code>>

\* if hours_old: days = hours_old / 24; the code of the first threshold, in
\* ascending order, with days <= threshold (hours_old <= 24 * threshold);
\* no parameter when no threshold fits
JS_daterange(hours_old) ==
    IF hours_old = <<>> \/ hours_old[1] = 0 THEN <<>>
    ELSE LET fits == {k \in 1..Len(JS_DATE_RANGE_MAP) :
                        hours_old[1] <= 24 * JS_DATE_RANGE_MAP[k].threshold}
         IN  IF fits = {} THEN <<>>
             ELSE <<JS_DATE_RANGE_MAP[CHOOSE k \in fits : \A m \in fits : k <= m].code>>

\* if job_type and job_type in JOB_TYPE_CODES
JS_worktype(job_type) ==
    IF job_type # <<>> /\ job_type[1] # "" /\ job_type[1] \in DOMAIN JS_JOB_TYPE_CODES
    THEN <<JS_JOB_TYPE_CODES[job_type[1]]>>
    ELSE <<>>

\* params of the page request; a parameter that is not sent is <<>>
JS_params(page_, job_type, is_remote, hours_old) ==
    [page |-> page_,
     worktype |-> JS_worktype(job_type),
     workarrangement |-> IF is_remote THEN <<"remote">> ELSE <<>>,
     daterange |-> JS_daterange(hours_old)]

\* the filters the parameters are built from
FilterArgs ==
    [job_type : {<<>>}, is_remote : {FALSE}, hours_old : HoursOld]
    \cup [job_type : JobTypes, is_remote : BOOLEAN, hours_old : {<<>>, <<24>>}]

\* A response to the search request.  next_data: the __NEXT_DATA__ script is
\* "absent", "malformed" (json.loads raises) or "ok"; n_json: listings in its
\* array; n_html: HTML cards with a title and an id; dump_ok: dump_to_json
\* could write its file.
JS_PageResponses ==
    {[status |-> st, next_data |-> "absent", n_json |-> 0, n_html |-> 0, dump_ok |-> TRUE] :
        st \in {0, 429, 500}}
    \cup
    {[status |-> 200, next_data |-> "ok", n_json |-> n, n_html |-> 0, dump_ok |-> TRUE] :
        n \in 0..MaxCards}
    \cup
    {[status |-> 200, next_data |-> nd, n_json |-> 0, n_html |-> n, dump_ok |-> d] :
        nd \in {"absent", "malformed"}, n \in 0..MaxCards, d \in BOOLEAN}

\* _parse_html_cards: the kept cards, or None when a step inside its try raised
JS_parse_html_cards(resp) ==
    IF resp.dump_ok
    THEN [tier |-> 2, total |-> resp.n_html, none |-> FALSE]
    ELSE [tier |-> 2, total |-> 0, none |-> TRUE]

JS_extract_job_listings(resp) ==
    IF resp.next_data = "ok" /\ resp.n_json > 0
    THEN [tier |-> 1, total |-> resp.n_json, none |-> FALSE]
    ELSE JS_parse_html_cards(resp)

\* _extract_job_listings on the document itself.  A key of the embedded JSON
\* is "absent", "empty" ([]), "list" (a non-empty array), "nested" ({"data":
\* a non-empty array}), "nested_empty" ({"data": []}) or "object" (a
\* non-empty dict without "data").
ListingValues == {"absent", "empty", "list", "nested", "nested_empty", "object"}

ValueTruthy(v) == v \notin {"absent", "empty"}

\* pageProps.search, pageProps.searchResults: missing, or a dict with the
\* keys data and jobs and possibly others
NoContainer == [present |-> FALSE, data |-> "absent", jobs |-> "absent", other |-> FALSE]

Containers ==
    {NoContainer}
    \cup [present : {TRUE}, data : ListingValues, jobs : {"absent", "list"},
          other : BOOLEAN]

ContainerTruthy(c) ==
    c.present /\ (c.data # "absent" \/ c.jobs # "absent" \/ c.other)

\* the parsed __NEXT_DATA__: pageProps with its own data and jobs keys
NextData ==
    [search : Containers, searchResults : Containers,
     data : {"absent", "list"}, jobs : {"absent", "list"}]

NoNextData ==
    [search |-> NoContainer, searchResults |-> NoContainer,
     data |-> "absent", jobs |-> "absent"]

\* a card element: it has a title element with text; the href of the title
\* element matches /job/<digits> or -<digits>$
HtmlCards ==
    {[title |-> TRUE, id |-> TRUE], [title |-> TRUE, id |-> FALSE],
     [title |-> FALSE, id |-> FALSE]}

\* what one selector pattern matches
HtmlMatches == {<<>>} \cup {<<c>> : c \in HtmlCards}

SelectorPatterns ==
    <<"article[data-automation=normalJob]", "div[data-automation=normalJob]",
      "article[data-card-type=JobCard]">>

\* the documents: every embedded JSON with two HTML bodies, and every HTML
\* body with no, a malformed and an empty embedded JSON
Soups ==
    [next_data : {"ok"}, json : NextData,
     html : {<<<<>>, <<>>, <<>>>>, <<<<[title |-> TRUE, id |-> TRUE]>>, <<>>, <<>>>>},
     dump_ok : {TRUE}]
    \cup
    [next_data : {"absent", "malformed", "ok"}, json : {NoNextData},
     html : [1..3 -> HtmlMatches], dump_ok : BOOLEAN]

\* what _extract_job_listings returns: none: None; tier and path: where the
\* value was found; array: it is a list; cards: the kept HTML cards
Extracted(tier, path, array, cards) ==
    [tier |-> tier, none |-> FALSE, path |-> path, array |-> array, cards |-> cards]

ExtractedNone == [tier |-> 2, none |-> TRUE, path |-> <<>>, array |-> FALSE, cards |-> <<>>]

\* _parse_html_cards on the document
JS_parse_html_cards_soup(soup) ==
    LET k == IF soup.html[1] # <<>> THEN 1
             ELSE IF soup.html[2] # <<>> THEN 2
             ELSE 3
        cards == soup.html[k]
        kept  == SelectSeq(cards, LAMBDA c : c.title /\ c.id)
    IN  IF ~soup.dump_ok THEN ExtractedNone
        ELSE Extracted(2, IF cards = <<>> THEN <<>> ELSE <<SelectorPatterns[k]>>,
                       TRUE, kept)

\* _extract_job_listings on the document
JS_extract_job_listings_soup(soup) ==
    LET pp  == soup.json
        own == [present |-> TRUE, data |-> pp.data, jobs |-> pp.jobs, other |-> TRUE]
        name == IF ContainerTruthy(pp.search) THEN "search"
                ELSE IF ContainerTruthy(pp.searchResults) THEN "searchResults"
                ELSE "pageProps"
        search_data == CASE name = "search" -> pp.search
                         [] name = "searchResults" -> pp.searchResults
                         [] OTHER -> own
        key == IF ValueTruthy(search_data.data) THEN "data" ELSE "jobs"
        job_listings == IF key = "data" THEN search_data.data ELSE search_data.jobs
        nested == job_listings \in {"nested", "nested_empty"}
        value == CASE job_listings = "nested" -> "list"
                   [] job_listings = "nested_empty" -> "empty"
                   [] OTHER -> job_listings
    IN  IF soup.next_data = "ok" /\ ValueTruthy(value)
        THEN Extracted(1, <<name, key>> \o (IF nested THEN <<"data">> ELSE <<>>),
                       value = "list", <<>>)
        ELSE JS_parse_html_cards_soup(soup)

JS_Listings(tier) == IF tier = 1 THEN JS_JsonListings ELSE JS_HtmlListings

\* a loop without the page ceiling
JS_LoopCond_no_ceiling == Len(jobs) < results_wanted

\* while len(jobs) < results_wanted and page <= 20
JS_LoopCond == Len(jobs) < results_wanted /\ page <= PageCeiling

JS_LoopTest ==
    /\ source = "jobstreet" /\ pc = "loop"
    /\ JS_LoopCond => page <= page_limit
    /\ pc' = IF JS_LoopCond THEN "fetch" ELSE "done"
    /\ result' = IF JS_LoopCond THEN result ELSE <<jobs>>
    /\ LoopHistory(JS_LoopCond)
    /\ on_progress_call(IF JS_LoopCond THEN "fetching_page" ELSE "none")
    /\ UNCHANGED <<argVars, glintsVars, jobs, seen_ids, start, page, job_cards, i>>

JS_Response(resp) ==
    /\ source = "jobstreet" /\ pc = "fetch"
    /\ resp.status = 429 => (limit_429 = Unlimited \/ n429 < limit_429)
    /\ LET act == OnStatus(resp.status)
           job_cards_ == JS_extract_job_listings(resp)
       IN  /\ pc' = CASE act = "retry" -> "loop"
                      [] act = "break" -> "done"
                      [] OTHER -> IF job_cards_.none \/ job_cards_.total = 0
                                  THEN "done" ELSE "cards"
           /\ job_cards' = IF act = "parse" THEN job_cards_ ELSE job_cards
           /\ i' = IF act = "parse" THEN 0 ELSE i
           /\ result' = IF pc' = "done" THEN <<jobs>> ELSE result
           /\ ResponseHistory(resp.status)
           /\ on_progress_call(IF act = "retry" THEN "rate_limit" ELSE "none")
    /\ UNCHANGED <<argVars, glintsVars, jobs, seen_ids, start, page>>

JS_ParseCard(card, resp) ==
    /\ source = "jobstreet" /\ pc = "cards"
    /\ card \in JS_Listings(job_cards.tier)
    /\ LET out  == JS_parse_job_card(card, resp)
           new  == IsNew(out, seen_ids)
           jobs_ == IF new THEN Append(jobs, out[1]) ELSE jobs
           brk  == new /\ ReachedWanted(jobs_, results_wanted)
       IN  /\ jobs' = jobs_
           /\ seen_ids' = IF new THEN seen_ids \cup {out[1].id} ELSE seen_ids
           /\ i' = i + 1
           /\ pc' = IF brk \/ i + 1 = job_cards.total THEN "advance" ELSE "cards"
           /\ ParseHistory(out, new, brk)
           /\ on_progress_call("parsing")
    /\ UNCHANGED <<argVars, glintsVars, start, page, job_cards, result>>

JS_NextPage ==
    /\ source = "jobstreet" /\ pc = "advance"
    /\ page' = page + 1
    /\ pc' = "loop"
    /\ PageHistory
    /\ on_progress_call("none")
    /\ UNCHANGED <<argVars, glintsVars, jobs, seen_ids, start, job_cards, i, result>>

----------------------------------------------------------------------------
(* Glints: GlintsScraper.scrape (glints-scraper.py 277-373) *)

\* An intercepted response.  url_match: the url holds "graphql" and
\* "searchJobsV3"; json_ok: response.json() returned a dict.
G_Responses ==
    {[url_match |-> FALSE, status |-> 200, json_ok |-> TRUE, jobsInPage |-> <<>>],
     [url_match |-> TRUE,  status |-> 500, json_ok |-> TRUE, jobsInPage |-> <<>>],
     [url_match |-> TRUE,  status |-> 200, json_ok |-> FALSE, jobsInPage |-> <<>>]}
    \cup
    {[url_match |-> TRUE, status |-> 200, json_ok |-> TRUE, jobsInPage |-> js] :
        js \in UNION {[1..n -> G_Jobs] : n \in 0..MaxCards}}

\* _extract_jobs_from_response: the parsed jobs of jobsInPage, None results left out
RECURSIVE G_extract_jobs_from_response(_)
G_extract_jobs_from_response(jobs_in_page) ==
    IF jobs_in_page = <<>> THEN <<>>
    ELSE G_parse_job(Head(jobs_in_page))
         \o G_extract_jobs_from_response(Tail(jobs_in_page))

\* for job in jobs: if job.id not in seen_ids: seen_ids.add(job.id); all_jobs.append(job)
RECURSIVE G_add_new(_, _, _)
G_add_new(js, all_jobs, seen) ==
    IF js = <<>> THEN [all_jobs |-> all_jobs, seen_ids |-> seen]
    ELSE IF IsNew(<<Head(js)>>, seen)
         THEN G_add_new(Tail(js), Append(all_jobs, Head(js)), seen \cup {Head(js).id})
         ELSE G_add_new(Tail(js), all_jobs, seen)

G_accepts(resp) ==
    resp.url_match /\ resp.status = 200 /\ resp.json_ok /\ resp.jobsInPage # <<>>

\* The history of the scroll loop.  new_on_page: all_jobs has grown since
\* the loop read its length last, or since the loop began; zero_new_pages:
\* the scrolls in a row, up to now, after which it had not grown.
ScrollHistory(scrolled) ==
    /\ new_on_page' = IF scrolled THEN FALSE
                      ELSE new_on_page \/ (pc = "scroll" /\ Len(jobs') > Len(jobs))
    /\ zero_new_pages' = IF ~scrolled THEN zero_new_pages
                         ELSE IF new_on_page THEN 0
                         ELSE Min(zero_new_pages + 1, EarlyStopScrolls)

\* page.goto(url, wait_until="networkidle"); page.wait_for_timeout(3000)
G_Goto ==
    /\ source = "glints" /\ pc = "goto"
    /\ pc' = "scroll"
    /\ UNCHANGED <<argVars, glintsVars, jobs, seen_ids, start, page, job_cards, i,
                   result, nreq, rate_limit_events, n429, last_status, after_429,
                   retried_ok, retried_dropped, retried_ids, new_on_page,
                   zero_new_pages, work_when_full, ws, otherVars>>

\* handle_response runs while the page is open and the script waits in a
\* Playwright call (goto, wheel, wait_for_timeout): between two scroll steps
G_HandleResponse(resp) ==
    /\ source = "glints" /\ pc \in {"goto", "scroll"}
    /\ nreq < MaxResponses
    /\ nreq' = nreq + 1
    /\ LET added == G_add_new(G_extract_jobs_from_response(resp.jobsInPage),
                              jobs, seen_ids)
       IN  /\ jobs' = IF G_accepts(resp) THEN added.all_jobs ELSE jobs
           /\ seen_ids' = IF G_accepts(resp) THEN added.seen_ids ELSE seen_ids
    /\ last_status' = resp.status
    /\ ScrollHistory(FALSE)
    /\ UNCHANGED <<argVars, glintsVars, start, page, pc, job_cards, i, result,
                   rate_limit_events, n429, after_429, retried_ok, retried_dropped,
                   retried_ids, work_when_full, ws, otherVars>>

\* one iteration of `for i in range(max_scrolls)`, from reading len(all_jobs) on
G_Scroll ==
    /\ source = "glints" /\ pc = "scroll"
    /\ LET current_count == Len(jobs)
           same == current_count = prev_count
           no_new == IF same THEN no_new_jobs_count + 1 ELSE 0
           brk == same /\ no_new >= EarlyStopScrolls
       IN  /\ no_new_jobs_count' = no_new
           /\ prev_count' = IF brk THEN prev_count ELSE current_count
           /\ i' = i + 1
           /\ pc' = IF brk \/ i + 1 >= max_scrolls THEN "done" ELSE "scroll"
           /\ result' = IF brk \/ i + 1 >= max_scrolls THEN <<jobs>> ELSE result
    /\ ScrollHistory(TRUE)
    /\ UNCHANGED <<argVars, jobs, seen_ids, start, page, job_cards, nreq,
                   rate_limit_events, n429, last_status, after_429, retried_ok,
                   retried_dropped, retried_ids, work_when_full, ws, otherVars>>

----------------------------------------------------------------------------
(* The callers *)

\* ids the store may hold when a crawl starts (main.py get_existing_job_ids)
StoredIds(src) ==
    IF src = "linkedin" THEN {<<"1">>, <<"2">>}
    ELSE {<<"jobstreet", "1">>, <<"jobstreet", "2">>}

\* No function is called on its own.  fn: the function; arg: its argument;
\* out: what it returned, once done.
CallIdle == [fn |-> "none", arg |-> <<>>, out |-> <<>>, done |-> FALSE]

\* the locals of one run of the loop
RunStart(existing) ==
    [jobs |-> <<>>, seen_ids |-> InitSeen(existing), start |-> 0, page |-> 1,
     done |-> FALSE]

\* No side-by-side run.  s: the locals of search_jobs; a: those of
\* search_jobs_async called with a progress callback; n: those of
\* search_jobs_async called without one; d: those of search_jobs on the same
\* pages when every detail fetch succeeds; same_log: the first three issued
\* the same requests and took the same delays so far; iterations: loop
\* iterations run.
TwinIdle ==
    [src |-> "none", wanted |-> 0, s |-> RunStart({}), a |-> RunStart({}),
     n |-> RunStart({}), d |-> RunStart({}), same_log |-> TRUE,
     iterations |-> 0, events |-> 0]

\* The store with nothing written.  rows: the jobs table; autoflush: whether
\* the session flushes before a query; fn, jobs: the latest writer and its
\* list; before: the table when it was called; raised, returned: how it
\* ended; repeat: it was handed the list the writer before it was handed, by
\* the same function; calls: writers run so far.
StoreIdle ==
    [rows |-> <<>>, autoflush |-> FALSE, fn |-> "none", jobs |-> <<>>,
     before |-> <<>>, raised |-> FALSE, returned |-> <<>>, repeat |-> FALSE,
     calls |-> 0]

\* The connection manager with no handler running.  active_connections: the
\* handler whose socket is stored under the client id, 0 for no entry;
\* handlers: the runs of websocket_scrape, each with the client_id of its
\* path and its own socket (open: the client has not closed it).  History:
\* received[t]: the handlers whose events socket t was sent; removed: the
\* handlers whose entry another handler's disconnect deleted while they ran.
ClientIds == {"a", "b"}

Handlers == 1..NumSessions

ManagerIdle ==
    [active_connections |-> <<>>, handlers |-> <<>>, received |-> <<>>, removed |-> {}]

\* A search as its handler is entered: the locals of the handler and of its
\* save_jobs_to_db (k: jobs the loop has gone through, pending: rows added
\* to its session and not committed) and what it answered.
SearchStart ==
    [pc |-> "start", existing_ids |-> {}, jobs |-> <<>>, k |-> 0, pending |-> <<>>,
     saved_count |-> 0, new_jobs |-> <<>>]

\* No search runs.  rows: the jobs table; initial: its rows when the searches
\* began; of: the two requests.
SearchesIdle == [rows |-> <<>>, initial |-> 0, autoflush |-> FALSE, of |-> <<>>]

\* nothing but a crawl runs
OthersIdle ==
    /\ ws = SessionIdle /\ call = CallIdle /\ twin = TwinIdle /\ db = StoreIdle
    /\ manager = ManagerIdle /\ searches = SearchesIdle

\* the locals of a crawl at its first evaluation of the while condition
StartCrawl(existing) ==
    /\ jobs = <<>>
    /\ seen_ids = InitSeen(existing)
    /\ start = 0
    /\ page = 1
    /\ job_cards = NoCards
    /\ i = 0
    /\ result = <<>>
    /\ prev_count = 0
    /\ no_new_jobs_count = 0
    /\ nreq = 0
    /\ rate_limit_events = 0
    /\ n429 = 0
    /\ last_status = -1
    /\ after_429 = FALSE
    /\ retried_ok = FALSE
    /\ retried_dropped = FALSE
    /\ retried_ids = {}
    /\ new_on_page = FALSE
    /\ zero_new_pages = 0
    /\ work_when_full = FALSE

\* the same locals, as the state a second crawl starts in
RestartCrawl(existing) ==
    /\ jobs' = <<>>
    /\ seen_ids' = InitSeen(existing)
    /\ start' = 0
    /\ page' = 1
    /\ job_cards' = NoCards
    /\ i' = 0
    /\ result' = <<>>
    /\ prev_count' = 0
    /\ no_new_jobs_count' = 0
    /\ nreq' = 0
    /\ rate_limit_events' = 0
    /\ n429' = 0
    /\ last_status' = -1
    /\ after_429' = FALSE
    /\ retried_ok' = FALSE
    /\ retried_dropped' = FALSE
    /\ retried_ids' = {}
    /\ new_on_page' = FALSE
    /\ zero_new_pages' = 0
    /\ work_when_full' = FALSE

\* the arguments of a LinkedIn or JobStreet crawl
CrawlArgs ==
    /\ source \in {"linkedin", "jobstreet"}
    /\ mode \in {"sync", "async"}
    /\ on_progress = (mode = "async")
    /\ results_wanted \in 1..MaxWanted
    /\ existing_ids \in SUBSET StoredIds(source)
    /\ max_scrolls = 0
    /\ pc = "loop"

\* the arguments of a Glints scrape
GlintsArgs ==
    /\ source = "glints"
    /\ mode = "sync"
    /\ on_progress = FALSE
    /\ results_wanted = 0
    /\ existing_ids = {}
    /\ max_scrolls \in 1..MaxScrolls
    /\ pc = "goto"

\* The store is empty or holds every id a page may bring; an id known while
\* another is new is met once the crawl has seen its first listing.
Init ==
    /\ CrawlArgs \/ GlintsArgs
    /\ existing_ids \in {{}, StoredIds(source)}
    /\ page_limit = MaxPages
    /\ limit_429 = Max429
    /\ may_recrawl = FALSE
    /\ crawl_no = 1
    /\ first_ids = {}
    /\ StartCrawl(existing_ids)
    /\ OthersIdle

\* The same query is run again, existing_ids being the ids the first crawl returned
Recrawl ==
    /\ source \in {"linkedin", "jobstreet"} /\ pc = "done" /\ crawl_no = 1
    /\ may_recrawl
    /\ crawl_no' = 2
    /\ first_ids' = Ids(result[1])
    /\ existing_ids' = Ids(result[1])
    /\ pc' = "loop"
    /\ RestartCrawl(Ids(result[1]))
    /\ UNCHANGED <<source, mode, on_progress, results_wanted, max_scrolls,
                   page_limit, limit_429, may_recrawl, ws, otherVars>>

CrawlNext ==
    \/ LI_LoopTest
    \/ \E resp \in LI_PageResponses : LI_Response(resp)
    \/ \E card \in LI_Cards, resp \in LI_DetailResponses : LI_ParseCard(card, resp)
    \/ LI_NextPage
    \/ JS_LoopTest
    \/ \E resp \in JS_PageResponses : JS_Response(resp)
    \/ \E card \in JS_JsonListings \cup JS_HtmlListings, resp \in JS_DetailResponses :
          JS_ParseCard(card, resp)
    \/ JS_NextPage

GlintsNext ==
    \/ G_Goto
    \/ \E resp \in G_Responses : G_HandleResponse(resp)
    \/ G_Scroll

Next == CrawlNext \/ GlintsNext

Spec == Init /\ [][Next]_vars

\* A crawl, then the same query with the ids the crawl returned
InitRecrawl ==
    /\ CrawlArgs
    /\ page_limit = RecrawlPages
    /\ limit_429 = 0
    /\ may_recrawl = TRUE
    /\ crawl_no = 1
    /\ first_ids = {}
    /\ StartCrawl(existing_ids)
    /\ OthersIdle

SpecRecrawl == InitRecrawl /\ [][CrawlNext \/ Recrawl]_vars

\* Crawls long enough for three pages in a row to bring nothing new
InitStreak ==
    /\ CrawlArgs
    /\ page_limit = StreakPages
    /\ limit_429 = 0
    /\ may_recrawl = FALSE
    /\ crawl_no = 1
    /\ first_ids = {}
    /\ StartCrawl(existing_ids)
    /\ OthersIdle

SpecStreak == InitStreak /\ [][CrawlNext]_vars

\* Crawls of one page whose request is answered with 429 up to RetryLimit times
InitRetry ==
    /\ CrawlArgs
    /\ existing_ids \in {{}, StoredIds(source)}
    /\ page_limit = 1
    /\ limit_429 = RetryLimit
    /\ may_recrawl = FALSE
    /\ crawl_no = 1
    /\ first_ids = {}
    /\ StartCrawl(existing_ids)
    /\ OthersIdle

SpecRetry == InitRetry /\ [][CrawlNext]_vars

\* A crawl met CeilingPages pages before the page ceiling of JobStreet or
\* CeilingCards listings before the offset ceiling of LinkedIn: the earlier
\* pages brought listings, none of them a job that was appended.  limit: the
\* 429 responses the source may give.
NearCeiling(limit) ==
    /\ CrawlArgs
    /\ existing_ids \in {{}, StoredIds(source)}
    /\ page_limit = PageCeiling + CeilingPages + CeilingCards
    /\ limit_429 = limit
    /\ may_recrawl = FALSE
    /\ crawl_no = 1
    /\ first_ids = {}
    /\ jobs = <<>>
    /\ seen_ids = InitSeen(existing_ids)
    /\ start = IF source = "linkedin" THEN OffsetCeiling - CeilingCards ELSE 0
    /\ page = PageCeiling - CeilingPages + 1
    /\ job_cards = NoCards
    /\ i = 0
    /\ result = <<>>
    /\ prev_count = 0
    /\ no_new_jobs_count = 0
    /\ nreq = 0
    /\ rate_limit_events = 0
    /\ n429 = 0
    /\ last_status = -1
    /\ after_429 = FALSE
    /\ retried_ok = FALSE
    /\ retried_dropped = FALSE
    /\ retried_ids = {}
    /\ new_on_page = FALSE
    /\ zero_new_pages = 0
    /\ work_when_full = FALSE
    /\ OthersIdle

\* the source answers every page request with a page or a failure
InitCeiling == NearCeiling(0)

SpecCeiling == InitCeiling /\ [][CrawlNext]_vars

\* the source may answer any page request with 429, any number of times
InitForever == NearCeiling(Unlimited)

\* The loop always takes its next step: the request is answered or raises
\* (timeout = 30), parsing and sleeping end.
SpecForever == InitForever /\ [][CrawlNext]_vars /\ WF_vars(CrawlNext)

----------------------------------------------------------------------------
(* A WebSocket session: main.py websocket_scrape (345-398) *)

\* what request.keywords may hold: a word, or the empty string
Keywords == {"dev", ""}

\* the session after manager.connect, waiting in websocket.receive_json
InitSession ==
    /\ source = "linkedin"
    /\ mode = "async"
    /\ on_progress = TRUE
    /\ results_wanted \in 1..MaxWanted
    /\ existing_ids \in {{}, StoredIds(source)}
    /\ max_scrolls = 0
    /\ pc = "wait"
    /\ page_limit = SessionPages
    /\ limit_429 = Max429
    /\ may_recrawl = FALSE
    /\ crawl_no = 1
    /\ first_ids = {}
    /\ StartCrawl(existing_ids)
    /\ \E k \in Keywords :
          ws = [SessionIdle EXCEPT !.pc = "receive", !.active = TRUE,
                                   !.client_open = TRUE, !.keywords = k]
    /\ call = CallIdle
    /\ twin = TwinIdle
    /\ db = StoreIdle
    /\ manager = ManagerIdle
    /\ searches = SearchesIdle

\* the client closes its socket or the connection breaks
WS_ClientDisconnect ==
    /\ ws.pc \in {"receive", "crawl", "saved", "failed"}
    /\ ws.client_open
    /\ ws' = [ws EXCEPT !.client_open = FALSE,
                        !.disconnected_in_crawl =
                            @ \/ (ws.pc = "crawl" /\ pc # "done")]
    /\ UNCHANGED <<crawlVars, otherVars>>

\* finally: manager.disconnect(client_id); db.close()
WS_Closed(w) == [w EXCEPT !.pc = "closed", !.active = FALSE]

\* data = await websocket.receive_json(); request = WebSocketSearchRequest(**data);
\* send_started; get_existing_job_ids; the call of search_jobs_async.
\* valid: the data has the fields of WebSocketSearchRequest.
WS_Receive(valid) ==
    /\ ws.pc = "receive"
    /\ IF ~ws.client_open
       THEN \* receive_json raises WebSocketDisconnect: pass
            /\ ws' = WS_Closed(ws)
            /\ UNCHANGED crawlVars
       ELSE IF ~valid
       THEN \* except Exception as e: send_error
            /\ ws' = WS_Closed(send_progress(ws, "error"))
            /\ UNCHANGED crawlVars
       ELSE /\ ws' = [send_progress(ws, "started") EXCEPT !.pc = "crawl"]
            /\ pc' = "loop"
            /\ UNCHANGED <<argVars, glintsVars, jobs, seen_ids, start, page, job_cards,
                           i, result, nreq, rate_limit_events, n429, last_status,
                           after_429, retried_ok, retried_dropped, retried_ids,
                           new_on_page, zero_new_pages, work_when_full>>
    /\ UNCHANGED otherVars

\* new_count = save_jobs_to_db(db, jobs, request.keywords); ok: it did not raise
WS_Save(ok) ==
    /\ ws.pc = "crawl" /\ pc = "done" /\ ~ws.raised
    /\ ws' = IF ok THEN [ws EXCEPT !.pc = "saved", !.saved = TRUE]
             ELSE [ws EXCEPT !.pc = "failed"]
    /\ UNCHANGED <<crawlVars, otherVars>>

\* a handler whose except branch sends nothing
WS_Terminal_silent_failure ==
    /\ ws.pc \in {"saved", "failed"}
    /\ ws' = WS_Closed(IF ws.pc = "saved" THEN send_progress(ws, "completed") ELSE ws)
    /\ UNCHANGED <<crawlVars, otherVars>>

\* send_completed, or send_error in the except branch; then the finally block
WS_Terminal ==
    /\ ws.pc \in {"saved", "failed"}
    /\ ws' = WS_Closed(send_progress(ws, IF ws.pc = "saved" THEN "completed"
                                          ELSE "error"))
    /\ UNCHANGED <<crawlVars, otherVars>>

SessionNext ==
    \/ WS_ClientDisconnect
    \/ \E valid \in BOOLEAN : WS_Receive(valid)
    \/ LI_LoopTest
    \/ \E resp \in LI_PageResponses : LI_Response(resp)
    \/ \E card \in LI_Cards, resp \in LI_DetailResponses : LI_ParseCard(card, resp)
    \/ LI_NextPage
    \/ \E ok \in BOOLEAN : WS_Save(ok)
    \/ WS_Terminal

SpecSession == InitSession /\ [][SessionNext]_vars

\* A session whose client stays connected, over a crawl of EventPages pages
InitEvents ==
    /\ source = "linkedin"
    /\ mode = "async"
    /\ on_progress = TRUE
    /\ results_wanted \in 1..MaxWanted
    /\ existing_ids \in {{}, StoredIds(source)}
    /\ max_scrolls = 0
    /\ pc = "wait"
    /\ page_limit = EventPages
    /\ limit_429 = Max429
    /\ may_recrawl = FALSE
    /\ crawl_no = 1
    /\ first_ids = {}
    /\ StartCrawl(existing_ids)
    /\ ws = [SessionIdle EXCEPT !.pc = "receive", !.active = TRUE,
                                !.client_open = TRUE]
    /\ call = CallIdle
    /\ twin = TwinIdle
    /\ db = StoreIdle
    /\ manager = ManagerIdle
    /\ searches = SearchesIdle

EventsNext ==
    \/ \E valid \in BOOLEAN : WS_Receive(valid)
    \/ LI_LoopTest
    \/ \E resp \in LI_PageResponses : LI_Response(resp)
    \/ \E card \in LI_Cards, resp \in LI_DetailResponses : LI_ParseCard(card, resp)
    \/ LI_NextPage
    \/ \E ok \in BOOLEAN : WS_Save(ok)
    \/ WS_Terminal

SpecEvents == InitEvents /\ [][EventsNext]_vars

----------------------------------------------------------------------------
(* search_jobs and search_jobs_async side by side, one loop iteration a step *)

\* What a run does besides computing: a page request (n: its start or page
\* parameter), a detail request (id: the job), the 60 s sleep after a 429,
\* the random 2-5 s delay before the next page.
PageRequest(n) == [kind |-> "page", n |-> n, id |-> <<>>]

DetailRequest(id) == [kind |-> "detail", n |-> 0, id |-> id]

Sleep60 == [kind |-> "sleep", n |-> 60, id |-> <<>>]

PageDelay == [kind |-> "delay", n |-> 0, id |-> <<>>]

\* The card loop: for card in job_cards (for i, card in enumerate(job_cards),
\* with a parsing event, in the async functions).  cards: the listings of the
\* page, each with the response its detail request would get.
RECURSIVE card_loop(_, _, _, _, _, _)
card_loop(src, cards, jobs_, seen, wanted, cb) ==
    IF cards = <<>>
    THEN [jobs |-> jobs_, seen_ids |-> seen, log |-> <<>>, events |-> 0]
    ELSE LET card == Head(cards).card
             resp == Head(cards).resp
             out  == IF src = "linkedin" THEN LI_parse_job_card(card, resp)
                     ELSE JS_parse_job_card(card, resp)
             req  == IF src = "linkedin"
                     THEN IF LI_fetches_detail(card)
                          THEN <<DetailRequest(LI_job_id(card))>> ELSE <<>>
                     ELSE IF JS_fetches_detail(card)
                          THEN <<DetailRequest(JS_job_id(card))>> ELSE <<>>
             ev   == IF cb THEN 1 ELSE 0
             new  == IsNew(out, seen)
             jobs2 == IF new THEN Append(jobs_, out[1]) ELSE jobs_
             seen2 == IF new THEN seen \cup {out[1].id} ELSE seen
         IN  IF new /\ ReachedWanted(jobs2, wanted)
             THEN [jobs |-> jobs2, seen_ids |-> seen2, log |-> req, events |-> ev]
             ELSE LET rest == card_loop(src, Tail(cards), jobs2, seen2, wanted, cb)
                  IN  [rest EXCEPT !.log = req \o @, !.events = ev + @]

\* scraper.py search_jobs: one evaluation of the while condition and, when it
\* holds, one run of the loop body on the page response pg
LI_search_jobs_iteration(st, pg, wanted) ==
    IF ~(Len(st.jobs) < wanted /\ st.start < OffsetCeiling)
    THEN [st |-> [st EXCEPT !.done = TRUE], log |-> <<>>, events |-> 0]
    ELSE IF pg.status = 429
    THEN [st |-> st, log |-> <<PageRequest(st.start), Sleep60>>, events |-> 0]
    ELSE IF pg.status # 200 \/ pg.cards = <<>>
    THEN [st |-> [st EXCEPT !.done = TRUE], log |-> <<PageRequest(st.start)>>,
          events |-> 0]
    ELSE LET r == card_loop("linkedin", pg.cards, st.jobs, st.seen_ids, wanted, FALSE)
         IN  [st |-> [st EXCEPT !.jobs = r.jobs, !.seen_ids = r.seen_ids,
                                !.start = @ + Len(pg.cards)],
              log |-> <<PageRequest(st.start)>> \o r.log
                      \o (IF Len(r.jobs) < wanted THEN <<PageDelay>> ELSE <<>>),
              events |-> 0]

\* an async loop that goes to the next page without the delay
LI_search_jobs_async_iteration_no_delay(st, pg, wanted, cb) ==
    LET ev == IF cb THEN 1 ELSE 0
    IN  IF ~(Len(st.jobs) < wanted /\ st.start < OffsetCeiling)
        THEN [st |-> [st EXCEPT !.done = TRUE], log |-> <<>>, events |-> 0]
        ELSE IF pg.status = 429
        THEN [st |-> st, log |-> <<PageRequest(st.start), Sleep60>>, events |-> 2 * ev]
        ELSE IF pg.status # 200 \/ pg.cards = <<>>
        THEN [st |-> [st EXCEPT !.done = TRUE], log |-> <<PageRequest(st.start)>>,
              events |-> ev]
        ELSE LET r == card_loop("linkedin", pg.cards, st.jobs, st.seen_ids, wanted, cb)
             IN  [st |-> [st EXCEPT !.jobs = r.jobs, !.seen_ids = r.seen_ids,
                                    !.start = @ + Len(pg.cards), !.page = @ + 1],
                  log |-> <<PageRequest(st.start)>> \o r.log,
                  events |-> ev + r.events]

\* scraper.py search_jobs_async: the same, with the fetching_page, rate_limit
\* and parsing events when a callback was passed
LI_search_jobs_async_iteration(st, pg, wanted, cb) ==
    LET ev == IF cb THEN 1 ELSE 0
    IN  IF ~(Len(st.jobs) < wanted /\ st.start < OffsetCeiling)
        THEN [st |-> [st EXCEPT !.done = TRUE], log |-> <<>>, events |-> 0]
        ELSE IF pg.status = 429
        THEN [st |-> st, log |-> <<PageRequest(st.start), Sleep60>>, events |-> 2 * ev]
        ELSE IF pg.status # 200 \/ pg.cards = <<>>
        THEN [st |-> [st EXCEPT !.done = TRUE], log |-> <<PageRequest(st.start)>>,
              events |-> ev]
        ELSE LET r == card_loop("linkedin", pg.cards, st.jobs, st.seen_ids, wanted, cb)
             IN  [st |-> [st EXCEPT !.jobs = r.jobs, !.seen_ids = r.seen_ids,
                                    !.start = @ + Len(pg.cards), !.page = @ + 1],
                  log |-> <<PageRequest(st.start)>> \o r.log
                          \o (IF Len(r.jobs) < wanted THEN <<PageDelay>> ELSE <<>>),
                  events |-> ev + r.events]

\* a loop whose 429 branch moves on to the next page
JS_search_jobs_iteration_429_advances(st, pg, wanted) ==
    IF ~(Len(st.jobs) < wanted /\ st.page <= PageCeiling)
    THEN [st |-> [st EXCEPT !.done = TRUE], log |-> <<>>, events |-> 0]
    ELSE IF pg.status = 429
    THEN [st |-> [st EXCEPT !.page = @ + 1],
          log |-> <<PageRequest(st.page), Sleep60>>, events |-> 0]
    ELSE IF pg.status # 200 \/ pg.cards = <<>>
    THEN [st |-> [st EXCEPT !.done = TRUE], log |-> <<PageRequest(st.page)>>,
          events |-> 0]
    ELSE LET r == card_loop("jobstreet", pg.cards, st.jobs, st.seen_ids, wanted, FALSE)
         IN  [st |-> [st EXCEPT !.jobs = r.jobs, !.seen_ids = r.seen_ids,
                                !.page = @ + 1],
              log |-> <<PageRequest(st.page)>> \o r.log
                      \o (IF Len(r.jobs) < wanted THEN <<PageDelay>> ELSE <<>>),
              events |-> 0]

\* jobstreet-scraper.py search_jobs; pg.cards is what _extract_job_listings returned
JS_search_jobs_iteration(st, pg, wanted) ==
    IF ~(Len(st.jobs) < wanted /\ st.page <= PageCeiling)
    THEN [st |-> [st EXCEPT !.done = TRUE], log |-> <<>>, events |-> 0]
    ELSE IF pg.status = 429
    THEN [st |-> st, log |-> <<PageRequest(st.page), Sleep60>>, events |-> 0]
    ELSE IF pg.status # 200 \/ pg.cards = <<>>
    THEN [st |-> [st EXCEPT !.done = TRUE], log |-> <<PageRequest(st.page)>>,
          events |-> 0]
    ELSE LET r == card_loop("jobstreet", pg.cards, st.jobs, st.seen_ids, wanted, FALSE)
         IN  [st |-> [st EXCEPT !.jobs = r.jobs, !.seen_ids = r.seen_ids,
                                !.page = @ + 1],
              log |-> <<PageRequest(st.page)>> \o r.log
                      \o (IF Len(r.jobs) < wanted THEN <<PageDelay>> ELSE <<>>),
              events |-> 0]

\* jobstreet-scraper.py search_jobs_async
JS_search_jobs_async_iteration(st, pg, wanted, cb) ==
    LET ev == IF cb THEN 1 ELSE 0
    IN  IF ~(Len(st.jobs) < wanted /\ st.page <= PageCeiling)
        THEN [st |-> [st EXCEPT !.done = TRUE], log |-> <<>>, events |-> 0]
        ELSE IF pg.status = 429
        THEN [st |-> st, log |-> <<PageRequest(st.page), Sleep60>>, events |-> 2 * ev]
        ELSE IF pg.status # 200 \/ pg.cards = <<>>
        THEN [st |-> [st EXCEPT !.done = TRUE], log |-> <<PageRequest(st.page)>>,
              events |-> ev]
        ELSE LET r == card_loop("jobstreet", pg.cards, st.jobs, st.seen_ids, wanted, cb)
             IN  [st |-> [st EXCEPT !.jobs = r.jobs, !.seen_ids = r.seen_ids,
                                    !.page = @ + 1],
                  log |-> <<PageRequest(st.page)>> \o r.log
                          \o (IF Len(r.jobs) < wanted THEN <<PageDelay>> ELSE <<>>),
                  events |-> ev + r.events]

\* the listings a page of the side-by-side runs is made of
TwinListings(src) ==
    IF src = "linkedin"
    THEN {c \in LI_Cards : c.link = "href" /\ c.title_tag # None}
    ELSE {c \in JS_JsonListings :
            c.listingId = Absent /\ (c.shape = "str" \/ Truthy(JS_job_id(c)))}

\* the detail responses of the side-by-side runs: a failure and a success
TwinDetailResponses(src) ==
    IF src = "linkedin" THEN {r \in LI_DetailResponses : r.status \in {0, 200}}
    ELSE {r \in JS_DetailResponses : r.status \in {0, 200}}

\* the page responses: a failure status, or 200 with up to TwinCards listings
TwinPages(src) ==
    {[status |-> st, cards |-> <<>>] : st \in {0, 429, 500}}
    \cup {[status |-> 200, cards |-> cs] :
            cs \in UNION {[1..k -> [card : TwinListings(src),
                                    resp : TwinDetailResponses(src)]] :
                          k \in 0..TwinCards}}

\* the detail response of a fetch that succeeds
DetailOk(src) ==
    IF src = "linkedin" THEN CHOOSE r \in LI_DetailResponses : r.status = 200
    ELSE CHOOSE r \in JS_DetailResponses : r.status = 200

\* the page pg, every detail fetch of its listings succeeding
EveryDetailOk(pg) ==
    [pg EXCEPT !.cards = [k \in DOMAIN pg.cards |->
                            [pg.cards[k] EXCEPT !.resp = DetailOk(twin.src)]]]

InitModes ==
    /\ source \in {"linkedin", "jobstreet"}
    /\ mode = "sync"
    /\ on_progress = FALSE
    /\ results_wanted \in 1..MaxWanted
    /\ existing_ids \in SUBSET StoredIds(source)
    /\ max_scrolls = 0
    /\ pc = "twin"
    /\ page_limit = 0
    /\ limit_429 = 0
    /\ may_recrawl = FALSE
    /\ crawl_no = 1
    /\ first_ids = {}
    /\ StartCrawl(existing_ids)
    /\ ws = SessionIdle
    /\ call = CallIdle
    /\ db = StoreIdle
    /\ manager = ManagerIdle
    /\ searches = SearchesIdle
    /\ twin = [TwinIdle EXCEPT !.src = source, !.wanted = results_wanted,
                               !.s = RunStart(existing_ids),
                               !.a = RunStart(existing_ids),
                               !.n = RunStart(existing_ids),
                               !.d = RunStart(existing_ids)]

\* the three runs take one loop iteration each, on the same page response
TwinIteration(pg) ==
    /\ twin.src # "none"
    /\ ~twin.s.done
    /\ twin.iterations < TwinIterations
    /\ LET li == twin.src = "linkedin"
           rs == IF li THEN LI_search_jobs_iteration(twin.s, pg, twin.wanted)
                 ELSE JS_search_jobs_iteration(twin.s, pg, twin.wanted)
           ra == IF li THEN LI_search_jobs_async_iteration(twin.a, pg, twin.wanted, TRUE)
                 ELSE JS_search_jobs_async_iteration(twin.a, pg, twin.wanted, TRUE)
           rn == IF li THEN LI_search_jobs_async_iteration(twin.n, pg, twin.wanted, FALSE)
                 ELSE JS_search_jobs_async_iteration(twin.n, pg, twin.wanted, FALSE)
           rd == IF li THEN LI_search_jobs_iteration(twin.d, EveryDetailOk(pg), twin.wanted)
                 ELSE JS_search_jobs_iteration(twin.d, EveryDetailOk(pg), twin.wanted)
       IN  twin' = [twin EXCEPT !.s = rs.st, !.a = ra.st, !.n = rn.st, !.d = rd.st,
                                !.same_log = @ /\ rs.log = ra.log /\ rs.log = rn.log,
                                !.iterations = @ + 1,
                                !.events = IF @ + ra.events > 3 THEN 3
                                           ELSE @ + ra.events]
    /\ UNCHANGED <<crawlVars, ws, call, db, manager, searches>>

ModesNext == \E pg \in TwinPages(twin.src) : TwinIteration(pg)

SpecModes == InitModes /\ [][ModesNext]_vars

----------------------------------------------------------------------------
(* One function of the program called on its own *)

\* the pages _extract_job_listings is handed: search_jobs parses only a 200
CallPages == {r \in JS_PageResponses : r.status = 200}

\* a call that has not run yet
CallOf(fn, args) == {[fn |-> fn, arg |-> <<a>>, out |-> <<>>, done |-> FALSE] : a \in args}

CallInputs ==
    CallOf("_extract_job_listings", CallPages)
    \cup CallOf("_extract_job_listings(soup)", Soups)
    \cup CallOf("params", FilterArgs)
    \cup CallOf("parse_job_card",
                 [tier : {1, 2}, native : NativeIds, resp : JS_DetailResponses])
    \cup CallOf("_extract_salary", SalaryJobData)
    \cup CallOf("_format_salary", FormatSalaryArgs)
    \cup CallOf("_parse_relative_date", [display_text : DisplayTexts, now : NowTimes])
    \cup CallOf("_extract_date", [job_data : DateJobData, now : NowTimes])

\* the call once the function returned value
Returned(value) == [call EXCEPT !.out = <<value>>, !.done = TRUE]

InitCalls ==
    /\ source = "jobstreet"
    /\ mode = "sync"
    /\ on_progress = FALSE
    /\ results_wanted = 1
    /\ existing_ids = {}
    /\ max_scrolls = 0
    /\ pc = "call"
    /\ page_limit = 0
    /\ limit_429 = 0
    /\ may_recrawl = FALSE
    /\ crawl_no = 1
    /\ first_ids = {}
    /\ StartCrawl(existing_ids)
    /\ ws = SessionIdle
    /\ twin = TwinIdle
    /\ db = StoreIdle
    /\ manager = ManagerIdle
    /\ searches = SearchesIdle
    /\ call \in CallInputs

Call_extract_job_listings ==
    /\ call.fn = "_extract_job_listings" /\ ~call.done
    /\ call' = Returned(JS_extract_job_listings(call.arg[1]))
    /\ UNCHANGED <<crawlVars, ws, twin, db, manager, searches>>

Call_extract_job_listings_soup ==
    /\ call.fn = "_extract_job_listings(soup)" /\ ~call.done
    /\ call' = Returned(JS_extract_job_listings_soup(call.arg[1]))
    /\ UNCHANGED <<crawlVars, ws, twin, db, manager, searches>>

Call_params ==
    /\ call.fn = "params" /\ ~call.done
    /\ call' = Returned(JS_params(page, call.arg[1].job_type, call.arg[1].is_remote,
                                  call.arg[1].hours_old))
    /\ UNCHANGED <<crawlVars, ws, twin, db, manager, searches>>

Call_parse_job_card ==
    /\ call.fn = "parse_job_card" /\ ~call.done
    /\ call' = Returned(JS_parse_job_card(JS_ListingOf(call.arg[1].tier,
                                                       call.arg[1].native),
                                          call.arg[1].resp))
    /\ UNCHANGED <<crawlVars, ws, twin, db, manager, searches>>

Call_extract_salary ==
    /\ call.fn = "_extract_salary" /\ ~call.done
    /\ call' = Returned(JS_extract_salary(call.arg[1]))
    /\ UNCHANGED <<crawlVars, ws, twin, db, manager, searches>>

Call_format_salary ==
    /\ call.fn = "_format_salary" /\ ~call.done
    /\ call' = Returned(G_format_salary(call.arg[1].salary_min,
                                        call.arg[1].salary_max,
                                        call.arg[1].currency))
    /\ UNCHANGED <<crawlVars, ws, twin, db, manager, searches>>

Call_parse_relative_date ==
    /\ call.fn = "_parse_relative_date" /\ ~call.done
    /\ call' = Returned(JS_parse_relative_date(call.arg[1].display_text, call.arg[1].now))
    /\ UNCHANGED <<crawlVars, ws, twin, db, manager, searches>>

Call_extract_date ==
    /\ call.fn = "_extract_date" /\ ~call.done
    /\ call' = Returned(JS_extract_date(call.arg[1].job_data, call.arg[1].now))
    /\ UNCHANGED <<crawlVars, ws, twin, db, manager, searches>>

CallsNext ==
    \/ Call_extract_job_listings
    \/ Call_extract_job_listings_soup
    \/ Call_params
    \/ Call_parse_job_card
    \/ Call_extract_salary
    \/ Call_format_salary
    \/ Call_parse_relative_date
    \/ Call_extract_date

SpecCalls == InitCalls /\ [][CallsNext]_vars

----------------------------------------------------------------------------
(* The store: main.py save_jobs_to_db, glints-scraper.py scrape_and_store *)

\* a row of the jobs table (models.py Job), by the columns the two writers differ in
Row(id, title, job_type, search_keywords) ==
    [id |-> id, title |-> title, job_type |-> job_type,
     search_keywords |-> search_keywords]

\* the jobs a crawl may hand to its writer; a Glints job carries its own
\* job_type and search_keywords
StoreJobs(fn) ==
    IF fn = "save_jobs_to_db"
    THEN {[id |-> id, title |-> t, job_type |-> None, search_keywords |-> None] :
            id \in StoredIds("linkedin"), t \in {"Dev", "Lead"}}
    ELSE {[id |-> id, title |-> t, job_type |-> "remote", search_keywords |-> "dev"] :
            id \in {<<"glints", "1">>, <<"glints", "2">>}, t \in {"Dev", "Lead"}}

\* the lists a crawl returns: up to MaxBatch jobs, no id twice
JobLists(fn) ==
    {js \in UNION {[1..k -> StoreJobs(fn)] : k \in 0..MaxBatch} :
        \A a, b \in 1..Len(js) : a # b => js[a].id # js[b].id}

\* db.query(Job).filter(Job.id == id).first(): the position of the row, 0 for
\* None.  It looks into the table and, when the session flushes before a
\* query, into the rows added in this call.
Lookup(rows, id) ==
    LET hits == {k \in 1..Len(rows) : rows[k].id = id}
    IN  IF hits = {} THEN 0 ELSE CHOOSE k \in hits : \A q \in hits : k <= q

Visible(rows, pending, autoflush) == IF autoflush THEN rows \o pending ELSE rows

\* db.commit(): id is the primary key, so the insert of an id the table (or
\* the same commit) already has raises IntegrityError and nothing is written
Commit(rows, pending) ==
    LET all == rows \o pending
    IN  IF \E a, b \in 1..Len(all) : a # b /\ all[a].id = all[b].id
        THEN [rows |-> rows, raised |-> TRUE]
        ELSE [rows |-> all, raised |-> FALSE]

\* for job_data in jobs: the job is added when no row has its id.  The row
\* takes search_keywords from the argument and job_type from the column default.
RECURSIVE save_loop(_, _, _, _, _, _)
save_loop(jobs_, rows, pending, saved_count, keywords, autoflush) ==
    IF jobs_ = <<>> THEN [pending |-> pending, saved_count |-> saved_count]
    ELSE LET job_data == Head(jobs_)
             existing == Lookup(Visible(rows, pending, autoflush), job_data.id)
         IN  IF existing = 0
             THEN save_loop(Tail(jobs_), rows,
                       Append(pending, Row(job_data.id, job_data.title, "onsite", keywords)),
                       saved_count + 1, keywords, autoflush)
             ELSE save_loop(Tail(jobs_), rows, pending, saved_count, keywords, autoflush)

\* a save that adds every job without looking at the table
save_jobs_to_db_no_lookup(rows, jobs_, keywords, autoflush) ==
    LET r == save_loop(jobs_, <<>>, <<>>, 0, keywords, autoflush)
        c == Commit(rows, r.pending)
    IN  [rows |-> c.rows, raised |-> c.raised,
         returned |-> IF c.raised THEN <<>> ELSE <<r.saved_count>>]

\* What a writer leaves: the table, whether it raised, and what it returned.
save_jobs_to_db(rows, jobs_, keywords, autoflush) ==
    LET r == save_loop(jobs_, rows, <<>>, 0, keywords, autoflush)
        c == Commit(rows, r.pending)
    IN  [rows |-> c.rows, raised |-> c.raised,
         returned |-> IF c.raised THEN <<>> ELSE <<r.saved_count>>]

\* for job in jobs: the row of the job's id is overwritten, or the job is added
RECURSIVE store_loop(_, _, _, _, _, _)
store_loop(jobs_, rows, pending, new_count, updated_count, autoflush) ==
    IF jobs_ = <<>>
    THEN [rows |-> rows, pending |-> pending, new_count |-> new_count,
          updated_count |-> updated_count]
    ELSE LET job == Head(jobs_)
             row == Row(job.id, job.title, job.job_type, job.search_keywords)
             existing == Lookup(Visible(rows, pending, autoflush), job.id)
         IN  IF existing = 0
             THEN store_loop(Tail(jobs_), rows, Append(pending, row),
                             new_count + 1, updated_count, autoflush)
             ELSE IF existing <= Len(rows)
             THEN store_loop(Tail(jobs_), [rows EXCEPT ![existing] = row], pending,
                             new_count, updated_count + 1, autoflush)
             ELSE store_loop(Tail(jobs_), rows,
                             [pending EXCEPT ![existing - Len(rows)] = row],
                             new_count, updated_count + 1, autoflush)

scrape_and_store(rows, jobs_, autoflush) ==
    IF jobs_ = <<>> THEN [rows |-> rows, raised |-> FALSE, returned |-> <<0, 0>>]
    ELSE LET r == store_loop(jobs_, rows, <<>>, 0, 0, autoflush)
             c == Commit(r.rows, r.pending)
         IN  IF c.raised THEN [rows |-> rows, raised |-> TRUE, returned |-> <<>>]
             ELSE [rows |-> c.rows, raised |-> FALSE,
                   returned |-> <<r.new_count, r.updated_count>>]

Written(fn, jobs_, r) ==
    [db EXCEPT !.rows = r.rows, !.fn = fn, !.jobs = jobs_, !.before = db.rows,
               !.raised = r.raised, !.returned = r.returned,
               !.repeat = (db.fn = fn /\ db.jobs = jobs_ /\ ~db.raised),
               !.calls = @ + 1]

Store_save_jobs_to_db(jobs_) ==
    /\ pc = "store" /\ db.calls < MaxSaves
    /\ db' = Written("save_jobs_to_db", jobs_,
                     save_jobs_to_db(db.rows, jobs_, "dev", db.autoflush))
    /\ UNCHANGED <<crawlVars, ws, call, twin, manager, searches>>

Store_scrape_and_store(jobs_) ==
    /\ pc = "store" /\ db.calls < MaxSaves
    /\ db' = Written("scrape_and_store", jobs_,
                     scrape_and_store(db.rows, jobs_, db.autoflush))
    /\ UNCHANGED <<crawlVars, ws, call, twin, manager, searches>>

InitStore ==
    /\ source = "linkedin"
    /\ mode = "sync"
    /\ on_progress = FALSE
    /\ results_wanted = 1
    /\ existing_ids = {}
    /\ max_scrolls = 0
    /\ pc = "store"
    /\ page_limit = 0
    /\ limit_429 = 0
    /\ may_recrawl = FALSE
    /\ crawl_no = 1
    /\ first_ids = {}
    /\ StartCrawl(existing_ids)
    /\ ws = SessionIdle
    /\ call = CallIdle
    /\ twin = TwinIdle
    /\ db \in {[StoreIdle EXCEPT !.autoflush = f] : f \in BOOLEAN}
    /\ manager = ManagerIdle
    /\ searches = SearchesIdle

StoreNext ==
    \/ \E jobs_ \in JobLists("save_jobs_to_db") : Store_save_jobs_to_db(jobs_)
    \/ \E jobs_ \in JobLists("scrape_and_store") : Store_scrape_and_store(jobs_)

SpecStore == InitStore /\ [][StoreNext]_vars

----------------------------------------------------------------------------
(* Several WebSocket sessions on the one manager: websocket_manager.py *)

\* the locals of a crawl in a specification that follows no crawl
NoCrawl(at) ==
    /\ source = "linkedin"
    /\ mode = "sync"
    /\ on_progress = FALSE
    /\ results_wanted = 1
    /\ existing_ids = {}
    /\ max_scrolls = 0
    /\ pc = at
    /\ page_limit = 0
    /\ limit_429 = 0
    /\ may_recrawl = FALSE
    /\ crawl_no = 1
    /\ first_ids = {}
    /\ StartCrawl(existing_ids)

\* ConnectionManager.disconnect, called for handler h's client id c, as it
\* changes the manager m
M_disconnect(m, h, c) ==
    LET t == m.active_connections[c]
    IN  IF t = 0 THEN m
        ELSE [m EXCEPT !.active_connections[c] = 0,
                       !.removed = IF t # h /\ m.handlers[t].pc = "run"
                                   THEN @ \cup {t} ELSE @]

\* websocket_scrape entered with /ws/scrape/{client_id}: manager.connect
M_connect(h) ==
    /\ manager.handlers[h].pc = "new"
    /\ manager' = [manager EXCEPT
                      !.active_connections[manager.handlers[h].client_id] = h,
                      !.handlers[h].pc = "run"]
    /\ UNCHANGED <<crawlVars, ws, call, twin, db, searches>>

\* the client of handler h closes its socket
M_ClientGone(h) ==
    /\ manager.handlers[h].pc = "run" /\ manager.handlers[h].open
    /\ manager' = [manager EXCEPT !.handlers[h].open = FALSE]
    /\ UNCHANGED <<crawlVars, ws, call, twin, db, searches>>

\* handler h sends an event: send_progress(client_id, data)
M_send_progress(h) ==
    /\ manager.handlers[h].pc = "run"
    /\ LET c == manager.handlers[h].client_id
           t == manager.active_connections[c]
       IN  manager' = IF t = 0 THEN manager
                      ELSE IF manager.handlers[t].open
                      THEN [manager EXCEPT !.received[t] = @ \cup {h}]
                      ELSE M_disconnect(manager, h, c)
    /\ UNCHANGED <<crawlVars, ws, call, twin, db, searches>>

\* finally: manager.disconnect(client_id)
M_finally(h) ==
    /\ manager.handlers[h].pc = "run"
    /\ manager' = [M_disconnect(manager, h, manager.handlers[h].client_id) EXCEPT
                      !.handlers[h].pc = "closed"]
    /\ UNCHANGED <<crawlVars, ws, call, twin, db, searches>>

InitClients ==
    /\ NoCrawl("clients")
    /\ \E ids \in [Handlers -> ClientIds] :
          manager = [active_connections |-> [c \in ClientIds |-> 0],
                     handlers |-> [h \in Handlers |->
                                     [pc |-> "new", client_id |-> ids[h], open |-> TRUE]],
                     received |-> [h \in Handlers |-> {}],
                     removed |-> {}]
    /\ ws = SessionIdle
    /\ call = CallIdle
    /\ twin = TwinIdle
    /\ db = StoreIdle
    /\ searches = SearchesIdle

ClientsNext ==
    \/ \E h \in Handlers : M_connect(h)
    \/ \E h \in Handlers : M_ClientGone(h)
    \/ \E h \in Handlers : M_send_progress(h)
    \/ \E h \in Handlers : M_finally(h)

SpecClients == InitClients /\ [][ClientsNext]_vars

----------------------------------------------------------------------------
(* Two searches at once: main.py get_jobs, search_jobs_post, websocket_scrape *)

\* the lists the crawl of a search may return
SearchLists == {js \in JobLists("save_jobs_to_db") : \A k \in 1..Len(js) : js[k].title = "Dev"}

\* existing_ids = get_existing_job_ids(db)
S_get_existing_job_ids(n) ==
    /\ searches.of[n].pc = "start"
    /\ searches' = [searches EXCEPT !.of[n].existing_ids = Ids(searches.rows),
                                    !.of[n].pc = "crawl"]
    /\ UNCHANGED <<crawlVars, ws, call, twin, db, manager>>

\* jobs = search_jobs(..., existing_ids=existing_ids): no job of an id it was given
S_search_jobs(n, js) ==
    /\ searches.of[n].pc = "crawl"
    /\ Ids(js) \cap searches.of[n].existing_ids = {}
    /\ searches' = [searches EXCEPT !.of[n].jobs = js, !.of[n].pc = "save"]
    /\ UNCHANGED <<crawlVars, ws, call, twin, db, manager>>

\* one iteration of the loop of save_jobs_to_db, on the session of the request
S_save_step(n) ==
    /\ searches.of[n].pc = "save"
    /\ searches.of[n].k < Len(searches.of[n].jobs)
    /\ LET me == searches.of[n]
           job_data == me.jobs[me.k + 1]
           existing == Lookup(Visible(searches.rows, me.pending, searches.autoflush),
                              job_data.id)
       IN  searches' =
             [searches EXCEPT
                !.of[n].k = @ + 1,
                !.of[n].pending =
                    IF existing = 0
                    THEN Append(@, Row(job_data.id, job_data.title, "onsite", "dev"))
                    ELSE @,
                !.of[n].saved_count = IF existing = 0 THEN @ + 1 ELSE @]
    /\ UNCHANGED <<crawlVars, ws, call, twin, db, manager>>

\* db.commit() and the answer: new_jobs = saved_count, or the error answer
\* (HTTPException 500, send_error) when the commit raised
S_commit(n) ==
    /\ searches.of[n].pc = "save"
    /\ searches.of[n].k = Len(searches.of[n].jobs)
    /\ LET me == searches.of[n]
           c  == Commit(searches.rows, me.pending)
       IN  searches' =
             [searches EXCEPT
                !.rows = c.rows,
                !.of[n].pending = <<>>,
                !.of[n].pc = IF c.raised THEN "failed" ELSE "done",
                !.of[n].new_jobs = IF c.raised THEN <<>> ELSE <<me.saved_count>>]
    /\ UNCHANGED <<crawlVars, ws, call, twin, db, manager>>

InitOverlap ==
    /\ NoCrawl("searches")
    /\ \E rows \in {js \in SearchLists : Len(js) <= 1}, flush \in BOOLEAN :
          searches = [rows |-> [k \in 1..Len(rows) |->
                                  Row(rows[k].id, rows[k].title, "onsite", "dev")],
                      initial |-> Len(rows), autoflush |-> flush,
                      of |-> [n \in 1..2 |-> SearchStart]]
    /\ ws = SessionIdle
    /\ call = CallIdle
    /\ twin = TwinIdle
    /\ db = StoreIdle
    /\ manager = ManagerIdle

OverlapNext ==
    \/ \E n \in 1..2 : S_get_existing_job_ids(n)
    \/ \E n \in 1..2, js \in SearchLists : S_search_jobs(n, js)
    \/ \E n \in 1..2 : S_save_step(n)
    \/ \E n \in 1..2 : S_commit(n)

SpecOverlap == InitOverlap /\ [][OverlapNext]_vars

----------------------------------------------------------------------------
(* Properties *)

PageLoop == source \in {"linkedin", "jobstreet"}

FailureStatuses == {0, 500}

WorkArrangements == {"remote", "hybrid", "onsite"}

\* C1 (SpecRecrawl): no job of the accumulated or returned list has an id
\* that is in the existing_ids passed in, and a second crawl whose
\* existing_ids are the ids the first crawl returned returns none of them.
C1_NoExistingIdReturned ==
    /\ \A k \in 1..Len(jobs) : jobs[k].id \notin existing_ids
    /\ result # <<>> =>
         /\ Ids(result[1]) \cap existing_ids = {}
         /\ crawl_no = 2 => Ids(result[1]) \cap first_ids = {}

\* C1 witness: a second crawl, seeded with the ids the first one returned,
\* has returned a non-empty list.
C1_Witness ==
    /\ crawl_no = 2 /\ pc = "done"
    /\ first_ids # {} /\ existing_ids = first_ids
    /\ result # <<>> /\ result[1] # <<>>

\* C2 (Spec): in every state of a crawl (LinkedIn and JobStreet page loops,
\* Glints handler interleaved with the scroll loop) no two entries of the
\* accumulated list have the same id, and every id of the list is in seen_ids.
C2_UniqueIds ==
    /\ \A a, b \in 1..Len(jobs) : a # b => jobs[a].id # jobs[b].id
    /\ Ids(jobs) \subseteq seen_ids

\* C2 witness: the Glints handler ran twice around a scroll step and the
\* list holds two jobs.
C2_Witness ==
    /\ source = "glints" /\ pc = "scroll" /\ i >= 1
    /\ nreq = 2 /\ Len(jobs) = 2

\* C3 (Spec), as claimed: every emitted job has an id <prefix>_<native id>
\* with the prefix of its source, applied once, and a non-empty native id.
C3_IdsWellFormed ==
    \A k \in 1..Len(jobs) :
        LET id == jobs[k].id
        IN  /\ Len(id) = 2
            /\ id[1] = source
            /\ id[2] # ""
            /\ id[2] \notin Prefixes

\* C4 (Spec), as claimed: every job has a work arrangement in
\* {remote, hybrid, onsite}, onsite when nothing determines it.
C4_WorkArrangementKnown ==
    \A k \in 1..Len(jobs) :
        IF source = "glints"
        THEN jobs[k].job_type \in WorkArrangements
        ELSE jobs[k].work_type \in WorkArrangements

\* C5 (Spec), as claimed: no job of the output was produced from a raw
\* listing without a native id.
C5_NoIdNeverEmitted ==
    \A k \in 1..Len(jobs) :
        LET raw == jobs[k].raw
        IN  CASE source = "linkedin"  -> raw.link = "href"
              [] source = "jobstreet" ->
                    Truthy(raw.id) \/ Truthy(raw.jobId) \/ Truthy(raw.listingId)
              [] OTHER                -> raw.id # Absent

ParsersKeepListing ==
    /\ \A card \in LI_Cards, resp \in LI_DetailResponses :
          LI_fetches_detail(card) => LI_parse_job_card(card, resp) # <<>>
    /\ \A card \in JS_JsonListings, resp \in JS_DetailResponses :
          JS_fetches_detail(card) => JS_parse_job_card(card, resp) # <<>>
    /\ \A job \in G_Jobs : job.shape = "dict" => G_parse_job(job) # <<>>

C7_StopsAtWanted ==
    PageLoop =>
        /\ Len(jobs) <= results_wanted
        /\ ~work_when_full
        /\ Len(jobs) >= results_wanted => pc \notin {"fetch", "cards"}
        /\ result # <<>> => Len(result[1]) <= results_wanted

\* C7 witness: the list reached results_wanted with a card of the page unread,
\* and the crawl returned.
C7_Witness ==
    /\ PageLoop /\ pc = "done"
    /\ Len(result[1]) = results_wanted
    /\ i < job_cards.total

\* C8 (Spec), as claimed: a crawl with one 429 whose retry got 200 emitted
\* exactly one rate_limit event and every listing of that page is in the output.
C8_OneEventAllListed ==
    (PageLoop /\ pc = "done" /\ n429 = 1 /\ retried_ok) =>
        /\ rate_limit_events = 1
        /\ ~retried_dropped

\* C8 (Spec), amended: in such a crawl one rate_limit event is emitted when a
\* progress callback was passed and none otherwise, and every job appended
\* from a listing of the retried page is in the returned list exactly once.
C8_RetriedPage ==
    (PageLoop /\ pc = "done" /\ n429 = 1 /\ retried_ok) =>
        /\ rate_limit_events = IF on_progress THEN 1 ELSE 0
        /\ \A id \in retried_ids :
              Cardinality({k \in 1..Len(result[1]) : result[1][k].id = id}) = 1

\* C8 witness: an async crawl got a 429, then 200 for the same page, appended
\* a job from one of its listings, left another one out, and returned.
C8_Witness ==
    /\ PageLoop /\ pc = "done" /\ n429 = 1 /\ retried_ok
    /\ on_progress /\ rate_limit_events = 1
    /\ retried_ids # {} /\ retried_dropped

\* C9 (Spec): a page response with a status other than 200 and 429, or an
\* exception of the request, ends the loop: the crawl returns the jobs it had
\* accumulated, unchanged, issues no further request and takes no further step.
C9_FailureEndsCrawl ==
    /\ [](PageLoop /\ last_status \in FailureStatuses =>
            pc = "done" /\ result = <<jobs>>)
    /\ [][PageLoop /\ pc = "fetch" /\ last_status' \in FailureStatuses =>
            jobs' = jobs /\ seen_ids' = seen_ids /\ nreq' = nreq]_vars
    /\ [][~(PageLoop /\ last_status \in FailureStatuses)]_vars

\* C9 witness: the second page failed after the first had given a job.
C9_Witness ==
    /\ PageLoop /\ last_status \in FailureStatuses
    /\ page = 2 /\ Len(jobs) >= 1 /\ pc = "done"

\* C10 (SpecStreak), as claimed: after three consecutive pages that appended
\* no job, no further page is requested.
C10_NoFourthFetch ==
    ~(PageLoop /\ pc = "fetch" /\ zero_new_pages >= 3)

\* the session called search_jobs_async
CrawlRan == ws.pc # "none" /\ pc # "wait"

C12_DisconnectAborts ==
    ws.disconnected_in_crawl =>
        /\ ~ws.fetch_after_disconnect
        /\ ~ws.saved
        /\ ws.n_completed = 0

\* C13 (SpecSession): a failed send raises nothing into the crawl loop: the
\* client is removed from the manager, and the crawl runs to its return, the
\* session going on to save what the crawl returned.
C13_SinkFailureSwallowed ==
    /\ ~ws.raised
    /\ ws.send_failed => ~ws.active
    /\ (ws.pc \in {"saved", "failed", "closed"} /\ CrawlRan) =>
          pc = "done" /\ result = <<jobs>>
    /\ ws.saved => pc = "done"

\* C13 witness: the send of a progress event failed during the crawl, and the
\* crawl still returned a job, which the session saved.
C13_Witness ==
    /\ ws.pc = "closed" /\ ws.saved
    /\ ws.send_failed /\ ws.disconnected_in_crawl
    /\ ws.last_event \in ProgressEvents
    /\ Len(result[1]) >= 1

\* C15 (SpecSession), as claimed: a crawl asked for with empty keywords
\* issues no page request.
C15_EmptyKeywordsFailFast ==
    ws.keywords = "" => nreq = 0

\* C14 (SpecModes): on the same arguments and the same responses, search_jobs,
\* search_jobs_async with a callback and search_jobs_async without one issue
\* the same page and detail requests, take the same delays, stand at the same
\* offset or page, and hold (and so return) the same job list, for LinkedIn
\* and for JobStreet.
C14_SameAlgorithm ==
    twin.src # "none" =>
        /\ twin.same_log
        /\ twin.s.jobs = twin.a.jobs /\ twin.s.jobs = twin.n.jobs
        /\ twin.s.seen_ids = twin.a.seen_ids /\ twin.s.seen_ids = twin.n.seen_ids
        /\ twin.s.done = twin.a.done /\ twin.s.done = twin.n.done
        /\ twin.s.start = twin.a.start /\ twin.s.start = twin.n.start
        /\ twin.a.page = twin.n.page
        /\ twin.src = "jobstreet" => twin.s.page = twin.a.page

\* C14 witness: after a page that left the list short of results_wanted (so
\* with a delay) the three runs have returned a job, the async run with a
\* callback having emitted events.
C14_Witness ==
    /\ twin.src = "linkedin" /\ twin.wanted = 2
    /\ twin.s.done /\ twin.a.done /\ twin.n.done
    /\ Len(twin.s.jobs) = 1 /\ twin.s.start >= 2
    /\ twin.events >= 3


\* C16: a page whose __NEXT_DATA__ is malformed and that has HTML cards with a
\* title and an id makes _extract_job_listings return those cards, whatever
\* happens in the steps of the fallback, the debug dump included.
C16_FallbackCardsReturned ==
    (/\ call.fn = "_extract_job_listings" /\ call.done
     /\ call.arg[1].next_data = "malformed"
     /\ call.arg[1].n_html > 0)
    => (~call.out[1].none /\ call.out[1].total = call.arg[1].n_html)

\* C17: a detail fetch that fails (the request raises or times out, the
\* status is not 200) returns description and work arrangement both absent
\* and the listing is kept: a crawl returns the ids, in the order, it returns
\* when every detail fetch succeeds, and its listings differ from those only
\* in description and work arrangement.
C17_DetailFailureKeepsListing ==
    /\ \A resp \in LI_DetailResponses : resp.status # 200 =>
           LI_get_job_description(resp) = [description |-> None, work_type |-> None]
    /\ \A resp \in JS_DetailResponses : resp.status # 200 =>
           JS_get_job_description(resp) = [description |-> None, work_type |-> None]
    /\ twin.src # "none" =>
           /\ Len(twin.s.jobs) = Len(twin.d.jobs)
           /\ \A k \in 1..Len(twin.s.jobs) :
                  /\ twin.s.jobs[k].id = twin.d.jobs[k].id
                  /\ twin.s.jobs[k].title = twin.d.jobs[k].title
                  /\ twin.s.jobs[k].raw = twin.d.jobs[k].raw
           /\ twin.s.seen_ids = twin.d.seen_ids
           /\ twin.s.start = twin.d.start /\ twin.s.page = twin.d.page
           /\ twin.s.done = twin.d.done

\* a crawl returned a listing whose detail fetch failed, after another listing
C17_Witness ==
    /\ twin.src # "none" /\ twin.s.done
    /\ \E k \in 1..Len(twin.s.jobs) :
          /\ twin.s.jobs[k].description = None
          /\ twin.d.jobs[k].description # None
    /\ Len(twin.s.jobs) = 2

\* the label, the amounts and the currency the source supplied, for either
\* salary function
Supplied ==
    IF call.fn = "_format_salary"
    THEN [label |-> AbsentKey, min |-> call.arg[1].salary_min,
          max |-> call.arg[1].salary_max, currency |-> call.arg[1].currency]
    ELSE LET jd == call.arg[1]
             sd == jd.salary
         IN  [label |-> IF sd.shape = "str" /\ sd.text # "" THEN sd.text
                        ELSE IF sd.shape = "dict" /\ TextTruthy(sd.label) THEN sd.label
                        ELSE jd.salaryLabel,
              min |-> IF sd.shape = "dict" THEN AmountOr(sd.min, sd.minimum) ELSE NoAmount,
              max |-> IF sd.shape = "dict" THEN AmountOr(sd.max, sd.maximum) ELSE NoAmount,
              currency |-> sd.currency]

\* C18: _extract_salary and _format_salary return the source's label when
\* one is supplied; otherwise "{currency} {min} - {max}" when both amounts
\* are present, "{currency} {min}+" with only the minimum, "{currency} up to
\* {max}" with only the maximum, absent with neither; the currency is IDR
\* when none is supplied; and no input makes them raise.  (A null or zero
\* amount counts as not present.)
C18_SalaryNormalised ==
    (call.fn \in {"_extract_salary", "_format_salary"} /\ call.done) =>
        LET given    == Supplied
            out      == call.out[1]
            currency == IF TextTruthy(given.currency) THEN given.currency ELSE "IDR"
            has_min  == AmountTruthy(given.min)
            has_max  == AmountTruthy(given.max)
        IN  /\ out.kind # "raises"
            /\ IF TextTruthy(given.label) THEN out.kind = "label" /\ out.label = given.label
               ELSE /\ out.kind = CASE has_min /\ has_max -> "range"
                                    [] has_min -> "from"
                                    [] has_max -> "upto"
                                    [] OTHER -> "absent"
                    /\ out.kind # "absent" => out.currency = currency

\* C19: "<n>d ago", "<n>h ago" and "<n>m ago" give the date of now minus n
\* days, hours or minutes; "just now" and "baru saja" give today's date; an
\* ISO timestamp gives its date; every other display text gives absent.
C19_DateNormalised ==
    /\ (call.fn = "_parse_relative_date" /\ call.done) =>
          LET text == call.arg[1].display_text
              now  == call.arg[1].now
              out  == call.out[1]
          IN  /\ text \in RelativeTexts =>
                    out = <<DateMinus(now, text[1].n * (CASE text[2].w = "d" -> 1440
                                                         [] text[2].w = "h" -> 60
                                                         [] OTHER -> 1))>>
              /\ text \in NowTexts => out = <<now.day>>
              /\ text \notin RelativeTexts \cup NowTexts => out = <<>>
    /\ (call.fn = "_extract_date" /\ call.done) =>
          LET jd == call.arg[1].job_data
          IN  /\ jd.listingDate.form = "iso" => call.out[1] = <<jd.listingDate.day>>
              /\ (/\ \A v \in {jd.listingDate, jd.postedAt, jd.createdAt} :
                         v.form \notin {"iso", "date"}
                  /\ jd.listingDateDisplay \notin RelativeTexts \cup NowTexts)
                 => call.out[1] = <<>>

\* C20: after a writer the table has one row per id, and a row for every
\* job it was handed.  save_jobs_to_db returns how many ids of its list
\* were not in the table before; handed the same list again it inserts
\* nothing and returns 0.  The two counts scrape_and_store returns add up
\* to the number of jobs it was handed.
C20_UpsertIdempotent ==
    LET ids_before == {db.before[k].id : k \in 1..Len(db.before)}
    IN  /\ \A a, b \in 1..Len(db.rows) : a # b => db.rows[a].id # db.rows[b].id
        /\ db.fn # "none" =>
              /\ ~db.raised
              /\ \A k \in 1..Len(db.jobs) :
                    \E r \in 1..Len(db.rows) : db.rows[r].id = db.jobs[k].id
        /\ db.fn = "save_jobs_to_db" =>
              /\ db.returned = <<Cardinality(Ids(db.jobs) \ ids_before)>>
              /\ db.repeat => db.returned = <<0>> /\ db.rows = db.before
        /\ db.fn = "scrape_and_store" =>
              /\ Len(db.returned) = 2
              /\ db.returned[1] + db.returned[2] = Len(db.jobs)

\* save_jobs_to_db was handed the same list of two jobs twice in a row
C20_Witness ==
    /\ db.fn = "save_jobs_to_db" /\ db.repeat
    /\ Len(db.jobs) = 2 /\ Len(db.rows) = 2
    /\ db.returned = <<0>>

\* the loop iteration of the running crawl on the page response pg
Iteration(pg) ==
    LET st == [jobs |-> jobs, seen_ids |-> seen_ids, start |-> start,
               page |-> page, done |-> FALSE]
    IN  CASE source = "linkedin" /\ mode = "sync" ->
                 LI_search_jobs_iteration(st, pg, results_wanted)
          [] source = "linkedin" /\ mode = "async" ->
                 LI_search_jobs_async_iteration(st, pg, results_wanted, on_progress)
          [] source = "jobstreet" /\ mode = "sync" ->
                 JS_search_jobs_iteration(st, pg, results_wanted)
          [] OTHER ->
                 JS_search_jobs_async_iteration(st, pg, results_wanted, on_progress)

\* C21 (SpecRetry): a 429 response leaves the page number, the start offset,
\* the accumulated list and seen_ids as they were and takes the loop back to
\* its condition; the async loop emits one rate_limit event for it when a
\* callback was passed; the iteration requests the page, sleeps 60 s, and
\* the iteration after it requests the same page.  A 200 response ends the
\* crawl only when it has no listings, however many 429 responses came
\* before it.
C21_RateLimitKeepsCursor ==
    /\ [][(PageLoop /\ pc = "fetch" /\ n429' = n429 + 1) =>
            /\ UNCHANGED <<jobs, seen_ids, start, page>>
            /\ pc' = "loop"
            /\ rate_limit_events' = rate_limit_events + (IF on_progress THEN 1 ELSE 0)]_vars
    /\ [][(PageLoop /\ pc = "loop" /\ pc' = "fetch") => UNCHANGED <<start, page>>]_vars
    /\ [][(PageLoop /\ pc = "fetch" /\ last_status' = 200 /\ pc' = "done") =>
            (job_cards'.total = 0 \/ job_cards'.none)]_vars
    /\ [](PageLoop /\ pc = "fetch" =>
            LET cursor == IF source = "linkedin" THEN start ELSE page
                r      == Iteration([status |-> 429, cards |-> <<>>])
            IN  /\ r.st.jobs = jobs /\ r.st.seen_ids = seen_ids
                /\ r.st.start = start /\ r.st.page = page /\ ~r.st.done
                /\ r.log = <<PageRequest(cursor), Sleep60>>
                /\ Sleep60.n = 60)

\* the page is parsed after RetryLimit 429 responses, each with its event
C21_Witness ==
    /\ PageLoop /\ pc = "cards" /\ after_429
    /\ n429 = RetryLimit /\ rate_limit_events = RetryLimit

\* C22 (SpecCeiling): JobStreet requests no page beyond PageCeiling and has
\* processed at most PageCeiling pages; LinkedIn requests no start offset of
\* OffsetCeiling or more; the offset changes only at the end of a processed
\* page, by the number of its cards, which is positive.
C22_CeilingKept ==
    /\ [](source = "jobstreet" =>
            /\ pc = "fetch" => page <= PageCeiling
            /\ page - 1 <= PageCeiling)
    /\ [](source = "linkedin" /\ pc = "fetch" => start < OffsetCeiling)
    /\ [][source = "linkedin" =>
            /\ pc = "advance" => start' = start + job_cards.total /\ start' > start
            /\ pc # "advance" => start' = start]_vars
    /\ [][source = "jobstreet" =>
            /\ pc = "advance" => page' = page + 1
            /\ pc # "advance" => page' = page]_vars

\* a JobStreet crawl that the page ceiling ended, short of results_wanted
C22_Witness ==
    /\ source = "jobstreet" /\ pc = "done"
    /\ page = PageCeiling + 1 /\ last_status = 200
    /\ Len(jobs) < results_wanted

\* C23 (SpecForever): every crawl returns, whatever the source answers.
C23_EveryCrawlReturns == <>(PageLoop /\ pc = "done")

\* the key paths of the embedded JSON under which a non-empty array lies
ArrayPaths(pp) ==
    LET own == [data |-> pp.data, jobs |-> pp.jobs]
        at(name, c) ==
            {<<name, k>> : k \in {k \in {"data", "jobs"} : c[k] = "list"}}
            \cup {<<name, k, "data">> : k \in {k \in {"data", "jobs"} : c[k] = "nested"}}
    IN  at("search", pp.search) \cup at("searchResults", pp.searchResults)
        \cup at("pageProps", own)

\* C24 (SpecCalls): _extract_job_listings returns an array of the embedded
\* JSON whenever the script is present, parses and holds a non-empty array
\* under one of the key paths, and returns what the HTML fallback gives in
\* every other case: the cards of the first selector pattern that matches
\* any, those with a title and an id.
C24_TierOrder ==
    (call.fn = "_extract_job_listings(soup)" /\ call.done) =>
        LET soup   == call.arg[1]
            out    == call.out[1]
            arrays == IF soup.next_data = "ok" THEN ArrayPaths(soup.json) ELSE {}
            first  == IF soup.html[1] # <<>> THEN soup.html[1]
                      ELSE IF soup.html[2] # <<>> THEN soup.html[2]
                      ELSE soup.html[3]
        IN  /\ arrays # {} => out.tier = 1 /\ out.array /\ out.path \in arrays
            /\ arrays = {} =>
                  /\ out.tier = 2
                  /\ out.none \/ out.cards = SelectSeq(first, LAMBDA c : c.title /\ c.id)

\* days of the window a daterange code asks for
WindowDays(code) ==
    CASE code = "1" -> 1 [] code = "3" -> 3 [] code = "7" -> 7
      [] code = "14" -> 14 [] OTHER -> 31

\* C25 (SpecCalls): for hours_old > 0 the daterange parameter is the code of
\* the smallest of the thresholds 1, 3, 7, 14, 30 days that is at least
\* hours_old / 24, code 31 for 30, so the window sent covers the window
\* asked for; beyond 30 days no threshold is that large and no daterange is
\* sent.  A job_type of the code table sends its code, any other sends no
\* job-type filter.
C25_FilterCovers ==
    (call.fn = "params" /\ call.done) =>
        LET hours_old == call.arg[1].hours_old
            job_type  == call.arg[1].job_type
            out       == call.out[1]
            above     == {t \in {1, 3, 7, 14, 30} : 24 * t >= hours_old[1]}
            least     == CHOOSE t \in above : \A u \in above : t <= u
        IN  /\ (hours_old # <<>> /\ hours_old[1] > 0) =>
                  IF above = {} THEN out.daterange = <<>>
                  ELSE /\ out.daterange =
                             <<CASE least = 1 -> "1" [] least = 3 -> "3"
                                 [] least = 7 -> "7" [] least = 14 -> "14"
                                 [] OTHER -> "31">>
                       /\ 24 * WindowDays(out.daterange[1]) >= hours_old[1]
            /\ (job_type = <<>> \/ job_type[1] \notin
                    {"full_time", "part_time", "contract", "temporary", "internship"})
               => out.worktype = <<>>
            /\ job_type = <<"part_time">> => out.worktype = <<"243">>

\* a window of exactly 30 days was asked for and code 31 was sent
C25_Witness ==
    /\ call.fn = "params" /\ call.done
    /\ call.arg[1].hours_old = <<720>>
    /\ call.out[1].daterange = <<"31">>

\* C26 (SpecEvents): the client has received started before any progress
\* event or completed, and a fetching_page before the parsing events that
\* follow it.  A fetching_page carries the page number and len(jobs) of
\* that moment; its jobs_found is not below that of the one before, and its
\* page is the one before plus one, or the same page after a 429.  The
\* parsing events after a fetching_page carry current = 1, 2, ... and the
\* number of cards of the page as total.
C26_EventOrder ==
    /\ [](ws.last_event \in ProgressEvents \cup {"completed"} => ws.started)
    /\ [](ws.parsing # <<>> => ws.fetching # <<>>)
    /\ [][(pc = "loop" /\ pc' = "fetch") =>
            /\ ws'.last_event = "fetching_page"
            /\ ws'.fetching = <<page, Len(jobs)>>
            /\ ws'.parsing = <<>>
            /\ IF ws.fetching = <<>> THEN page = 1
               ELSE /\ ws'.fetching[2] >= ws.fetching[2]
                    /\ ws'.fetching[1] =
                          ws.fetching[1] + (IF last_status = 429 THEN 0 ELSE 1)]_vars
    /\ [][pc = "cards" =>
            /\ ws'.last_event = "parsing"
            /\ ws'.fetching = ws.fetching
            /\ ws'.parsing = <<IF ws.parsing = <<>> THEN 1 ELSE ws.parsing[1] + 1,
                               job_cards.total>>]_vars
    /\ [][(pc = "fetch" /\ pc' = "loop") =>
            /\ ws'.last_event = "rate_limit"
            /\ ws'.fetching = ws.fetching]_vars

\* the second parsing event of the second page, after a 429
C26_Witness ==
    /\ ws.pc = "crawl" /\ n429 > 0
    /\ ws.fetching # <<>> /\ ws.fetching[1] = 2 /\ ws.fetching[2] > 0
    /\ ws.parsing = <<2, 2>>

\* C27 (Spec): the scroll loop makes at most max_scrolls scrolls; it stops
\* before max_scrolls only after three scrolls in a row that left the
\* number of accumulated jobs unchanged, and it has stopped once three
\* scrolls in a row have left it unchanged; a scroll after which the number
\* had grown sets no_new_jobs_count to 0.
C27_EarlyStopAfterThree ==
    source = "glints" =>
        /\ i <= max_scrolls
        /\ (pc = "done" /\ i < max_scrolls) => zero_new_pages >= EarlyStopScrolls
        /\ zero_new_pages >= EarlyStopScrolls => pc = "done"
        /\ (i > 0 /\ zero_new_pages = 0) => no_new_jobs_count = 0

\* C28 (SpecCalls): the job parse_job_card makes of a JobStreet listing has
\* the same id whether the listing came from the embedded JSON or from the
\* HTML cards.
C28_SameIdAcrossTiers ==
    (call.fn = "parse_job_card" /\ call.done) =>
        LET given == call.arg[1]
            other == JS_parse_job_card(JS_ListingOf(3 - given.tier, given.native),
                                       given.resp)
        IN  /\ call.out[1] # <<>> /\ other # <<>>
            /\ call.out[1][1].id = other[1].id

\* C29 (SpecClients): every event a socket was sent came from the handler
\* the socket belongs to, and no handler's entry in active_connections was
\* deleted by the disconnect of another handler while it ran.
C29_SessionsIsolated ==
    /\ \A t \in Handlers : manager.received[t] \subseteq {t}
    /\ manager.removed = {}

\* C30 (SpecOverlap): when the two searches both return a job whose id
\* neither found in the table, neither search fails, and once both have
\* answered the table holds the id once and the new_jobs of the two answers
\* add up to the rows inserted.
C30_OverlapStoresOnce ==
    LET a == searches.of[1]
        b == searches.of[2]
        common == (Ids(a.jobs) \cap Ids(b.jobs)) \ (a.existing_ids \cup b.existing_ids)
    IN  common # {} =>
          /\ a.pc # "failed" /\ b.pc # "failed"
          /\ (a.pc = "done" /\ b.pc = "done") =>
                /\ \A id \in common :
                      Cardinality({k \in 1..Len(searches.rows) :
                                     searches.rows[k].id = id}) = 1
                /\ a.new_jobs[1] + b.new_jobs[1] = Len(searches.rows) - searches.initial
====
